---- MODULE Spec2Model ----
(***************************************************************************)
(* Verification model of the per-call conversation engine of the           *)
(* Asterisk AI voice agent: the local AI server's connection handler,      *)
(* idle finaliser and LLM single-flight lock (local_ai_server/main.py),    *)
(* the turn coordinator's gating token, the local pipeline adapters        *)
(* (src/pipelines/local.py), the transfer tools and the frame cutter of    *)
(* the OpenAI pipeline (src/pipelines/openai.py).                          *)
(***************************************************************************)
EXTENDS Integers, Sequences, FiniteSets, TLC

VARIABLES
    now,            \* monotonic clock / loop.time(), in milliseconds
    conn_open,      \* the websocket of the modelled connection is open
    session,        \* SessionContext of the modelled connection
    rec_seq,        \* number of KaldiRecognizer instances created so far
    chunk_seq,      \* number of audio chunks accepted so far
    pc,             \* position of every coroutine (handler, peer handler, idle tasks)
    loc,            \* locals of every coroutine
    cancelled,      \* idle tasks with a pending CancelledError
    llm_lock,       \* holder of LocalAIServer._llm_lock
    llm_running,    \* coroutines awaiting a model call that runs in a worker thread
    llm_orphans,    \* model calls still running whose awaiter was cancelled
    llm_model,      \* self.llm_model is loaded
    sys_words,      \* whitespace word count of self.llm_system_prompt
    llm_ctx,        \* self.llm_context, the configured context size in tokens
    req_seq,        \* number of llm_request / reload_models messages received so far
    obs,            \* observations: what was sent and started so far
    gating_token,   \* per call: the gating token held in the session store
    active_streams, \* StreamingPlaybackManager.active_streams
    clear_calls,    \* per call: invocations of SessionStore.clear_gating_token
    last_op,        \* last coordinator operation and its outcome
    websockets,     \* the websockets the adapter created, in order of creation
    _sessions,      \* _LocalAdapterBase._sessions.get(call_id): the registered session
    handshake_complete, \* per session: _LocalSessionState.handshake_complete
    apc,            \* position of every coroutine that calls the adapter
    aloc,           \* locals of every coroutine that calls the adapter
    request_seq,    \* number of requests the adapter sent so far
    call_seq,       \* number of adapter operations begun so far
    stream,         \* per session: send_lock, result_queue, receiver_task
    queue,          \* per session: the items of the asyncio.Queue of its stream
    consumer,       \* the coroutine iterating iter_results
    received,       \* per session: the final transcripts its receive loop took
    result_seq,     \* number of stt_result messages the server sent so far
    tools_config,   \* context.config["tools"]: the transfer and extensions sections
    ari_commands,   \* the commands the tool sent to the ARI client, in order
    call_session,   \* the transfer fields of the call's session
    tool_call,      \* the tool call made: function name and destination argument
    tool_pc,        \* position of the coroutine that executes live_agent_transfer
    tool_result,    \* what LiveAgentTransferTool.execute returned
    chunker,        \* the generator _chunk_audio: its arguments, position and frames
    _closed         \* the adapter's _closed flag: stop() has run

srvVars == <<now, conn_open, session, rec_seq, chunk_seq, pc, loc, cancelled,
             llm_lock, llm_running, llm_orphans, llm_model, sys_words, llm_ctx, req_seq, obs>>
gateVars == <<gating_token, active_streams, clear_calls, last_op>>
adapterVars == <<websockets, _sessions, handshake_complete, apc, aloc, request_seq,
                 call_seq>>
streamVars == <<stream, queue, consumer, received, result_seq>>
pipeVars == <<adapterVars, streamVars>>
toolVars == <<tools_config, ari_commands, call_session, tool_call,
              tool_pc, tool_result>>
chunkVars == <<chunker>>
stopVars == <<_closed>>
vars == <<srvVars, gateVars, pipeVars, toolVars, chunkVars, stopVars>>

\* Python's None, for optional tasks, lock holders and recogniser ids
None == 0

(***************************************************************************)
(* Bounds of the model.                                                    *)
(***************************************************************************)
MaxChunks == 2
MaxIdleChunks == 3
MaxTicks == 2
MaxOrphans == 1
MaxRequests == 2
MaxOps == 4
MaxTurns == 3
MaxConns == 2
MaxAdapterCalls == 3
MaxStreamCalls == 4
MaxResults == 2
stream_queue_maxsize == 1
MaxPeerMessages == 2
MaxUnknown == 1
MaxRoom == 4

(***************************************************************************)
(* Program constants.                                                      *)
(***************************************************************************)
buffer_timeout_ms == 3000
DupWindowMs == 500
MinIdleMs == 100
llm_context == 768
llm_max_tokens == 48
PromptReserve == 64
MinPromptTokens == 128
TemplateTokens == 3
DefaultSysWords == 14

TickMs == buffer_timeout_ms \div 2
StartMs == TickMs
MaxTimeMs == StartMs + MaxTicks * TickMs

SUPPORTED_MODES == {"full", "stt", "llm", "tts"}
DEFAULT_MODE == "full"
stt_modes == {"stt", "llm", "full"}

FallbackRepeat == "I'm here to help you. Could you please repeat that?"
FallbackAssist == "I'm here to help you. How can I assist you today?"
\* the status of a reload_response
ReloadStatus == "success"

\* switch_model of the admin UI: its test of the reload_response
hot_reload_succeeded(status) == status = "ok"

FallbackEmpty == "I'm here to help you."

(***************************************************************************)
(* Text: a string is a sequence of one-character strings.                  *)
(***************************************************************************)
IsSpace(c) == c \in {" ", "\n"}

Lower(c) ==
    CASE c = "G" -> "g"
      [] c = "O" -> "o"
      [] c = "N" -> "n"
      [] c = "L" -> "l"
      [] c = "A" -> "a"
      [] c = "S" -> "s"
      [] OTHER -> c

RECURSIVE LStrip(_)
LStrip(s) == IF s # <<>> /\ IsSpace(Head(s)) THEN LStrip(Tail(s)) ELSE s

RECURSIVE RStrip(_)
RStrip(s) ==
    IF s # <<>> /\ IsSpace(s[Len(s)]) THEN RStrip(SubSeq(s, 1, Len(s) - 1)) ELSE s

Strip(s) == RStrip(LStrip(s))

LowerText(s) == [i \in 1..Len(s) |-> Lower(s[i])]

\* str.split(): the maximal runs of non-whitespace characters, in order
RECURSIVE SplitWords(_, _, _)
SplitWords(s, cur, acc) ==
    IF s = <<>> THEN (IF cur = <<>> THEN acc ELSE Append(acc, cur))
    ELSE IF IsSpace(Head(s))
         THEN SplitWords(Tail(s), <<>>, IF cur = <<>> THEN acc ELSE Append(acc, cur))
         ELSE SplitWords(Tail(s), Append(cur, Head(s)), acc)

Split(s) == SplitWords(s, <<>>, <<>>)

RECURSIVE Join(_, _)
Join(sep, parts) ==
    IF parts = <<>> THEN <<>>
    ELSE IF Len(parts) = 1 THEN parts[1]
    ELSE parts[1] \o sep \o Join(sep, Tail(parts))

_normalize_text(value) == Join(<<" ">>, Split(LowerText(Strip(value))))

T_empty == <<>>
T_go_on == <<"g", "o", " ", "o", "n">>
T_Go_On == <<"G", "o", " ", " ", "O", "n", " ">>
T_no == <<"n", "o">>

\* transcripts the recogniser can return for audio that contained speech
Texts == {T_empty, T_go_on, T_Go_On, T_no}
PartialText == <<"g", "o">>

(***************************************************************************)
(* LLM prompt assembly.  A prompt is kept as the user text it carries; the *)
(* system prompt enters only through its word count.                       *)
(***************************************************************************)
Max(a, b) == IF a >= b THEN a ELSE b

T_Hello == <<"H", "e", "l", "l", "o">>

\* the user segment of the Phi prompt: the stripped text, or "Hello" when empty
_build_phi_prompt(user_text) ==
    IF Strip(user_text) = <<>> THEN T_Hello ELSE Strip(user_text)

\* whitespace-split token count of the prompt built around a user segment
_count_prompt_tokens(prompt) == TemplateTokens + sys_words + Len(Split(prompt))

max_prompt_tokens == Max(llm_ctx - llm_max_tokens - PromptReserve, MinPromptTokens)

JoinTurns(turns) == Strip(Join(<<"\n", "\n">>, turns))

\* a trimming loop that drops at most one turn
TrimTurnsOnce(turns) ==
    IF turns # <<>>
       /\ _count_prompt_tokens(_build_phi_prompt(JoinTurns(turns))) > max_prompt_tokens
    THEN Tail(turns)
    ELSE turns

RECURSIVE TrimTurns(_)
TrimTurns(turns) ==
    IF turns # <<>>
       /\ _count_prompt_tokens(_build_phi_prompt(JoinTurns(turns))) > max_prompt_tokens
    THEN TrimTurns(Tail(turns))
    ELSE turns

_prepare_llm_prompt(user_turns, new_turn) ==
    LET candidate_turns == Append(user_turns, new_turn)
        trimmed_turns == TrimTurns(candidate_turns)
        prompt_text == _build_phi_prompt(JoinTurns(trimmed_turns))
    IN  [ prompt |-> prompt_text,
          prompt_tokens |-> _count_prompt_tokens(prompt_text),
          truncated |-> Len(trimmed_turns) < Len(candidate_turns),
          raw_tokens |-> _count_prompt_tokens(_build_phi_prompt(JoinTurns(candidate_turns))),
          turns |-> trimmed_turns ]

(***************************************************************************)
(* Coroutines: the connection handler, the handler of a second connection, *)
(* and the idle-finaliser tasks.                                           *)
(***************************************************************************)
Handler == -1
Peer == -2
TaskIds == 1..MaxIdleChunks
Procs == {Handler, Peer} \cup TaskIds

\* heard: undrawn speech is decoded; spoke: the instance ever decoded speech
NoRecognizer == [id |-> None, heard |-> FALSE, spoke |-> FALSE]

SessionContext ==
    [ mode |-> DEFAULT_MODE,
      recognizer |-> NoRecognizer,
      last_partial |-> <<>>,
      partial_emitted |-> FALSE,
      last_audio_at |-> 0,
      idle_task |-> None,
      last_final_text |-> <<>>,
      last_final_norm |-> <<>>,
      last_final_at |-> 0,
      llm_user_turns |-> <<>>,
      audio_buffer |-> <<>> ]

NoLoc ==
    [ mode |-> DEFAULT_MODE, ctx |-> "none", text |-> <<>>, sent |-> FALSE,
      resp |-> "", deadline |-> 0, audio |-> FALSE, prompt |-> <<>>,
      prompt_tokens |-> 0, truncated |-> FALSE ]

(***************************************************************************)
(* Observations (history variables, not program state): what was sent on   *)
(* the websocket and which inferences were started.                        *)
(***************************************************************************)
Norms == {_normalize_text(x) : x \in Texts} \ {<<>>}

NoObs ==
    [ nfinal |-> [r \in 1..MaxIdleChunks |-> 0],  \* finals sent, per recogniser instance
      since_reset |-> 0,                      \* finals sent since the last reset
      speech |-> FALSE,                       \* some accepted chunk carried speech
      silent |-> [rec |-> None, n |-> 0],     \* finals sent for the last silent recogniser
      unknown |-> 0,                          \* envelopes of unknown type skipped
      arrived |-> {},                         \* non-empty finals handed to the LLM modes
      infers |-> [n \in Norms |-> 0],         \* inferences started, per normalised turn
      resps |-> [n \in Norms |-> 0],          \* llm_response messages sent, per turn
      last |-> [type |-> "none", idle |-> FALSE, mode |-> DEFAULT_MODE, text |-> <<>>,
                resp |-> "", n |-> 0] ]

\* the last event: a message sent on the websocket or an internal event
Ev(type, p, mode, text) ==
    [ type |-> type, idle |-> p \in TaskIds, mode |-> mode, text |-> text,
      resp |-> "", n |-> 0 ]

\* websocket.send: the message reaches the wire unless the connection is closed
WireSend(ob, ev) == IF conn_open THEN [ob EXCEPT !.last = ev] ELSE ob

\* what Result() / FinalResult() can return for a recogniser: some text once
\* it decoded speech, no text otherwise
RecTexts(rec) == IF rec.heard THEN Texts \ {T_empty} ELSE {T_empty}

\* the system prompt sizes the model starts from: the default prompt (14
\* words), and a configured prompt that leaves room for one word of user text
SysPromptWords == {DefaultSysWords, max_prompt_tokens - TemplateTokens - 1}

FreeSlots == {t \in TaskIds : pc[t] = "none"}
NewTask == CHOOSE t \in FreeSlots : \A u \in FreeSlots : t <= u


(***************************************************************************)
(* The common tail of every step: publish the session, move coroutine p,   *)
(* cancel one task (kill) and create one (spawn), as the step decided.     *)
(***************************************************************************)
Commit(p, s, kill, spawn, pcp, locp, ob) ==
    /\ session' = s
    /\ pc' = [q \in Procs |->
                IF q = p THEN pcp
                ELSE IF q = spawn THEN "created"
                ELSE IF q = kill /\ pc[q] = "created" THEN "none"
                ELSE pc[q]]
    /\ loc' = [q \in Procs |->
                IF q = p THEN locp
                ELSE IF q = spawn THEN [NoLoc EXCEPT !.mode = s.mode]
                ELSE IF q = kill /\ pc[q] = "created" THEN NoLoc
                ELSE loc[q]]
    /\ cancelled' = IF kill # None /\ pc[kill] # "created"
                    THEN cancelled \cup {kill} ELSE cancelled
    /\ obs' = ob

\* the task _cancel_idle_timer cancels when run by coroutine current
CancelTarget(s, current) ==
    IF s.idle_task # None /\ pc[s.idle_task] # "none" /\ s.idle_task # current
    THEN s.idle_task ELSE None

_cancel_idle_timer(s) == [s EXCEPT !.idle_task = None]

_reset_stt_session(s, last_text) ==
    [ _cancel_idle_timer(s) EXCEPT
        !.recognizer = NoRecognizer,
        !.last_partial = <<>>,
        !.partial_emitted = FALSE,
        !.audio_buffer = <<>>,
        !.last_final_text = last_text,
        !.last_final_norm = _normalize_text(last_text),
        !.last_final_at = now ]

ObsReset(ob) == [ob EXCEPT !.since_reset = 0]

\* coroutine p leaves its call: the handler awaits the next message; an idle
\* task runs the finally clause of _idle_promote and ends
Return(p, s, kill, ob) ==
    IF p \in TaskIds
    THEN Commit(p, [s EXCEPT !.idle_task = None], kill, None, "none", NoLoc, ob)
    ELSE Commit(p, s, kill, None, "recv", NoLoc, ob)

\* _schedule_idle_finalizer, run by the handler
_schedule_idle_finalizer(p, s, ob) ==
    Commit(p, [_cancel_idle_timer(s) EXCEPT !.idle_task = NewTask],
           CancelTarget(s, p), NewTask, "recv", NoLoc, ob)

(***************************************************************************)
(* _handle_final_transcript, run by coroutine p (the handler for a         *)
(* recogniser final, an idle task for an idle promotion) up to its first   *)
(* await.  s is the session as the caller left it.                         *)
(***************************************************************************)
recent_empty(s) ==
    /\ s.last_final_text = <<>>
    /\ s.last_final_at > 0
    /\ now - s.last_final_at < DupWindowMs

\* a variant that compares the raw text with the last final
FinalSuppressedRaw(s, text, mode, idle_promoted) ==
    LET clean_text == Strip(text)
    IN  IF clean_text = <<>>
        THEN IF mode = "stt"
             THEN recent_empty(s) \/ (idle_promoted /\ s.last_final_text = <<>>)
             ELSE TRUE
        ELSE idle_promoted /\ clean_text = s.last_final_text

\* the transcript is dropped before anything is sent
FinalSuppressed(s, text, mode, idle_promoted) ==
    LET clean_text == Strip(text)
        normalized_text == _normalize_text(clean_text)
    IN  IF clean_text = <<>>
        THEN IF mode = "stt"
             THEN recent_empty(s) \/ (idle_promoted /\ s.last_final_text = <<>>)
             ELSE TRUE
        ELSE idle_promoted /\ normalized_text # <<>>
             /\ normalized_text = s.last_final_norm

ObsArrived(ob, p, text, mode) ==
    IF text # <<>> /\ mode # "stt"
    THEN [ob EXCEPT !.arrived = @ \cup {[norm |-> _normalize_text(text), at |-> now,
                                         idle |-> p \in TaskIds]}]
    ELSE ob

ObsFinalSent(ob, p, rec, mode, text) ==
    IF conn_open
    THEN [ob EXCEPT !.nfinal[rec.id] = @ + 1, !.since_reset = @ + 1,
                    !.silent = IF rec.spoke THEN @
                               ELSE IF @.rec = rec.id THEN [@ EXCEPT !.n = @ + 1]
                               ELSE [rec |-> rec.id, n |-> 1],
                    !.last = Ev("stt_final", p, mode, text)]
    ELSE ob

_handle_final_transcript(p, s, text, mode, ob) ==
    LET clean_text == Strip(text)
        idle_promoted == p \in TaskIds
        ob1 == ObsArrived(ob, p, clean_text, mode)
    IN  IF FinalSuppressed(s, text, mode, idle_promoted)
        THEN Return(p, s, None, [ob1 EXCEPT !.last = Ev("final_suppressed", p, mode, clean_text)])
        ELSE Commit(p, s, None, None,
                    IF clean_text = <<>> THEN "empty_final_sent" ELSE "final_sent",
                    [NoLoc EXCEPT !.mode = mode, !.ctx = "final", !.text = clean_text,
                                  !.sent = conn_open],
                    ObsFinalSent(ob1, p, s.recognizer, mode, clean_text))

\* lines 923-934: after the send of an empty final (stt mode)
EmptyFinalSentResume(p) ==
    /\ pc[p] = "empty_final_sent"
    /\ p \notin cancelled
    /\ IF loc[p].sent
       THEN Return(p, _reset_stt_session(session, <<>>), CancelTarget(session, p),
                   ObsReset(obs))
       ELSE Return(p, session, None, obs)
    /\ UNCHANGED <<now, conn_open, rec_seq, chunk_seq, llm_lock, llm_running,
                   llm_orphans, llm_model, sys_words, llm_ctx, req_seq, gateVars, toolVars, chunkVars, stopVars, pipeVars>>

\* the turn is the one remembered last: no inference
LlmDuplicate(s, text) ==
    /\ _normalize_text(text) # <<>>
    /\ s.llm_user_turns # <<>>
    /\ _normalize_text(text) = _normalize_text(s.llm_user_turns[Len(s.llm_user_turns)])

\* lines 974-1016: after the send of a non-empty final, up to the LLM call
FinalSentResume(p) ==
    /\ pc[p] = "final_sent"
    /\ p \notin cancelled
    /\ LET text == loc[p].text
           mode == loc[p].mode
           s1 == IF loc[p].sent THEN _reset_stt_session(session, text) ELSE session
           kill == IF loc[p].sent THEN CancelTarget(session, p) ELSE None
           ob1 == IF loc[p].sent THEN ObsReset(obs) ELSE obs
           prep == _prepare_llm_prompt(s1.llm_user_turns, text)
       IN  IF mode = "stt"
           THEN Return(p, s1, kill, ob1)
           ELSE IF LlmDuplicate(s1, text)
           THEN Return(p, s1, kill, ob1)
           ELSE Commit(p, [s1 EXCEPT !.llm_user_turns = prep.turns], kill, None,
                       "llm_wait",
                       [loc[p] EXCEPT !.sent = FALSE, !.prompt = prep.prompt,
                                      !.prompt_tokens = prep.prompt_tokens,
                                      !.truncated = prep.truncated],
                       ob1)
    /\ UNCHANGED <<now, conn_open, rec_seq, chunk_seq, llm_lock, llm_running,
                   llm_orphans, llm_model, sys_words, llm_ctx, req_seq, gateVars, toolVars, chunkVars, stopVars, pipeVars>>

(***************************************************************************)
(* process_llm under asyncio.wait_for, and the emission of its reply.      *)
(***************************************************************************)
Reply == "reply"
LlmOutputs == {Reply, "", FallbackAssist}

ObsInfer(ob, p) ==
    IF loc[p].ctx = "final"
    THEN [ob EXCEPT !.infers[_normalize_text(loc[p].text)] = @ + 1]
    ELSE ob

ObsResponse(ob, p, text) ==
    IF ~conn_open THEN ob
    ELSE IF loc[p].ctx = "final"
    THEN [ob EXCEPT !.resps[_normalize_text(loc[p].text)] = @ + 1,
                    !.last = [Ev("llm_response", p, loc[p].mode, loc[p].text)
                              EXCEPT !.resp = text]]
    ELSE [ob EXCEPT !.last = [Ev("llm_response", p, loc[p].mode, loc[p].text)
                              EXCEPT !.resp = text]]

\* _emit_llm_response, then the caller's next await or return
_emit_llm_response(p, resp, ob) ==
    LET text == IF resp = "" THEN FallbackEmpty ELSE resp
        ob1 == ObsResponse(ob, p, text)
    IN  IF loc[p].ctx = "request"
        THEN Return(p, session, None, ob1)
        ELSE Commit(p, session, None, None, "llm_resp_sent",
                    [loc[p] EXCEPT !.resp = resp, !.sent = conn_open,
                                   !.prompt = <<>>, !.prompt_tokens = 0], ob1)

\* process_llm takes the lock and hands the prompt to a worker thread
LLMAcquire(p) ==
    /\ pc[p] = "llm_wait"
    /\ p \notin cancelled
    /\ llm_lock = None
    /\ IF llm_model
       THEN /\ llm_lock' = p
            /\ llm_running' = llm_running \cup {p}
            /\ Commit(p, session, None, None, "llm_infer", loc[p], ObsInfer(obs, p))
       ELSE /\ _emit_llm_response(p, FallbackAssist, obs)
            /\ UNCHANGED <<llm_lock, llm_running>>
    /\ UNCHANGED <<now, conn_open, rec_seq, chunk_seq, llm_orphans, llm_model,
                   sys_words, llm_ctx, req_seq, gateVars, toolVars, chunkVars, stopVars, pipeVars>>

\* the worker thread returns: choices, no choices, or an exception
LLMComplete(p) ==
    /\ pc[p] = "llm_infer"
    /\ p \notin cancelled
    /\ llm_lock' = None
    /\ llm_running' = llm_running \ {p}
    /\ \E out \in LlmOutputs : _emit_llm_response(p, out, obs)
    /\ UNCHANGED <<now, conn_open, rec_seq, chunk_seq, llm_orphans, llm_model,
                   sys_words, llm_ctx, req_seq, gateVars, toolVars, chunkVars, stopVars, pipeVars>>

\* what a cancelled process_llm leaves behind: the lock is released by the
\* async-with, the worker thread keeps running the model
AbandonInference(p) ==
    IF pc[p] = "llm_infer"
    THEN /\ llm_lock' = None
         /\ llm_running' = llm_running \ {p}
         /\ llm_orphans' = llm_orphans + 1
    ELSE UNCHANGED <<llm_lock, llm_running, llm_orphans>>

\* LOCAL_LLM_INFER_TIMEOUT_SEC elapses: wait_for cancels process_llm
LLMTimeout(p) ==
    /\ pc[p] \in {"llm_wait", "llm_infer"}
    /\ p \notin cancelled
    /\ pc[p] = "llm_infer" => llm_orphans < MaxOrphans
    /\ AbandonInference(p)
    /\ _emit_llm_response(p, FallbackRepeat, obs)
    /\ UNCHANGED <<now, conn_open, rec_seq, chunk_seq, llm_model, sys_words, llm_ctx,
                   req_seq, gateVars, toolVars, chunkVars, stopVars, pipeVars>>

\* an abandoned model call runs to completion
OrphanFinish ==
    /\ llm_orphans > 0
    /\ llm_orphans' = llm_orphans - 1
    /\ UNCHANGED <<now, conn_open, session, rec_seq, chunk_seq, pc, loc, cancelled,
                   llm_lock, llm_running, llm_model, sys_words, llm_ctx, req_seq, obs, gateVars, toolVars, chunkVars, stopVars, pipeVars>>

\* lines 1035-1052: after the send of the llm_response; full mode goes on to TTS
LlmRespSentResume(p) ==
    /\ pc[p] = "llm_resp_sent"
    /\ p \notin cancelled
    /\ IF ~loc[p].sent \/ loc[p].mode # "full" \/ loc[p].resp = ""
       THEN Return(p, session, None, obs)
       ELSE \E audio \in BOOLEAN, request_id \in BOOLEAN :
              IF request_id
              THEN Commit(p, session, None, None, "tts_meta_sent",
                          [loc[p] EXCEPT !.audio = audio, !.sent = conn_open],
                          WireSend(obs, [Ev("tts_audio", p, "full", loc[p].text)
                                         EXCEPT !.n = IF audio THEN 1 ELSE 0]))
              ELSE IF audio
              THEN Commit(p, session, None, None, "tts_bytes_sent", loc[p],
                          WireSend(obs, [Ev("tts_bytes", p, "full", loc[p].text)
                                         EXCEPT !.n = 1]))
              ELSE Return(p, session, None, obs)
    /\ UNCHANGED <<now, conn_open, rec_seq, chunk_seq, llm_lock, llm_running,
                   llm_orphans, llm_model, sys_words, llm_ctx, req_seq, gateVars, toolVars, chunkVars, stopVars, pipeVars>>

\* _emit_tts_audio after the metadata envelope
TtsMetaSentResume(p) ==
    /\ pc[p] = "tts_meta_sent"
    /\ p \notin cancelled
    /\ IF loc[p].sent /\ loc[p].audio
       THEN Commit(p, session, None, None, "tts_bytes_sent", loc[p],
                   WireSend(obs, [Ev("tts_bytes", p, "full", loc[p].text)
                                  EXCEPT !.n = 1]))
       ELSE Return(p, session, None, obs)
    /\ UNCHANGED <<now, conn_open, rec_seq, chunk_seq, llm_lock, llm_running,
                   llm_orphans, llm_model, sys_words, llm_ctx, req_seq, gateVars, toolVars, chunkVars, stopVars, pipeVars>>

TtsBytesSentResume(p) ==
    /\ pc[p] = "tts_bytes_sent"
    /\ p \notin cancelled
    /\ Return(p, session, None, obs)
    /\ UNCHANGED <<now, conn_open, rec_seq, chunk_seq, llm_lock, llm_running,
                   llm_orphans, llm_model, sys_words, llm_ctx, req_seq, gateVars, toolVars, chunkVars, stopVars, pipeVars>>

(***************************************************************************)
(* The idle finaliser task of _schedule_idle_finalizer.                    *)
(***************************************************************************)
\* the task is first scheduled by the loop and goes to sleep
IdleStart(t) ==
    /\ t \in TaskIds
    /\ pc[t] = "created"
    /\ pc' = [pc EXCEPT ![t] = "sleep"]
    /\ loc' = [loc EXCEPT ![t].deadline = now + Max(buffer_timeout_ms, MinIdleMs)]
    /\ UNCHANGED <<now, conn_open, session, rec_seq, chunk_seq, cancelled, llm_lock,
                   llm_running, llm_orphans, llm_model, sys_words, llm_ctx, req_seq, obs, gateVars, toolVars, chunkVars, stopVars, pipeVars>>

TimerDue(t) == pc[t] = "sleep" /\ t \notin cancelled /\ now >= loc[t].deadline

\* the sleep ends: draw FinalResult and hand it to _handle_final_transcript
IdleFire(t) ==
    /\ t \in TaskIds
    /\ TimerDue(t)
    /\ IF session.recognizer = NoRecognizer
       THEN Return(t, session, None, obs)
       ELSE \E text \in RecTexts(session.recognizer) :
              _handle_final_transcript(t, [session EXCEPT !.recognizer.heard = FALSE],
                                       text, loc[t].mode, obs)
    /\ UNCHANGED <<now, conn_open, rec_seq, chunk_seq, llm_lock, llm_running,
                   llm_orphans, llm_model, sys_words, llm_ctx, req_seq, gateVars, toolVars, chunkVars, stopVars, pipeVars>>

\* CancelledError reaches a cancelled task at its await: it returns through
\* the except clause and the finally clause clears session.idle_task
IdleCancelled(t) ==
    /\ t \in cancelled
    /\ pc[t] = "llm_infer" => llm_orphans < MaxOrphans
    /\ AbandonInference(t)
    /\ session' = [session EXCEPT !.idle_task = None]
    /\ pc' = [pc EXCEPT ![t] = "none"]
    /\ loc' = [loc EXCEPT ![t] = NoLoc]
    /\ cancelled' = cancelled \ {t}
    /\ UNCHANGED <<now, conn_open, rec_seq, chunk_seq, llm_model, sys_words, llm_ctx,
                   req_seq, obs, gateVars, toolVars, chunkVars, stopVars, pipeVars>>

(***************************************************************************)
(* The connection handler: one message at a time.                          *)
(***************************************************************************)
\* an audio message in an STT-capable mode: _handle_audio_payload with
\* _process_stt_stream, up to the first await
RecvAudioUpTo(limit) ==
    /\ pc[Handler] = "recv"
    /\ conn_open
    /\ chunk_seq < limit
    /\ session.mode \in stt_modes
    /\ \E speech \in BOOLEAN, has_final \in BOOLEAN :
         LET fresh == session.recognizer = NoRecognizer
             rec0 == IF fresh THEN [id |-> rec_seq + 1, heard |-> FALSE, spoke |-> FALSE]
                     ELSE session.recognizer
             s0 == IF fresh
                   THEN [session EXCEPT !.recognizer = rec0, !.last_partial = <<>>,
                                        !.partial_emitted = FALSE]
                   ELSE session
             rec1 == [rec0 EXCEPT !.heard = @ \/ speech, !.spoke = @ \/ speech]
             s1 == [s0 EXCEPT !.recognizer = rec1, !.last_audio_at = now]
             partial_text == IF rec1.heard THEN PartialText ELSE <<>>
             ob == [obs EXCEPT !.speech = @ \/ speech]
         IN  /\ rec_seq' = IF fresh THEN rec_seq + 1 ELSE rec_seq
             /\ chunk_seq' = chunk_seq + 1
             /\ IF has_final
                THEN \E text \in RecTexts(rec1) :
                       _handle_final_transcript(Handler,
                           [s1 EXCEPT !.recognizer.heard = FALSE], text, s1.mode, ob)
                ELSE IF partial_text # s1.last_partial \/ ~s1.partial_emitted
                THEN Commit(Handler,
                            [s1 EXCEPT !.last_partial = partial_text,
                                       !.partial_emitted = TRUE],
                            None, None, "partial_sent",
                            [NoLoc EXCEPT !.mode = s1.mode, !.sent = conn_open],
                            WireSend(ob, Ev("stt_partial", Handler, s1.mode, partial_text)))
                ELSE _schedule_idle_finalizer(Handler, s1, ob)
    /\ UNCHANGED <<now, conn_open, llm_lock, llm_running, llm_orphans, llm_model,
                   sys_words, llm_ctx, req_seq, gateVars, toolVars, chunkVars, stopVars, pipeVars>>

RecvAudio == RecvAudioUpTo(MaxChunks)

\* lines 1201-1207: after the send of a partial
PartialSentResume ==
    /\ pc[Handler] = "partial_sent"
    /\ _schedule_idle_finalizer(Handler, session, obs)
    /\ UNCHANGED <<now, conn_open, rec_seq, chunk_seq, llm_lock, llm_running,
                   llm_orphans, llm_model, sys_words, llm_ctx, req_seq, gateVars, toolVars, chunkVars, stopVars, pipeVars>>

\* a set_mode message, the first message of a connection
RecvSetMode ==
    /\ pc[Handler] = "recv"
    /\ conn_open
    /\ chunk_seq = 0 /\ obs.last.type = "none"
    /\ \E requested \in SUPPORTED_MODES \ {session.mode} :
         Commit(Handler, [session EXCEPT !.mode = requested], None, None, "recv", NoLoc,
                WireSend(obs, Ev("mode_ready", Handler, requested, <<>>)))
    /\ UNCHANGED <<now, conn_open, rec_seq, chunk_seq, llm_lock, llm_running,
                   llm_orphans, llm_model, sys_words, llm_ctx, req_seq, gateVars, toolVars, chunkVars, stopVars, pipeVars>>

\* a JSON envelope of unknown type whose handling would end the handler loop
RecvUnknownFatal ==
    /\ pc[Handler] = "recv"
    /\ conn_open
    /\ obs.unknown < MaxUnknown
    /\ Commit(Handler, session, None, None, "exit", NoLoc,
              [obs EXCEPT !.unknown = @ + 1,
                          !.last = Ev("unknown_type", Handler, session.mode, <<>>)])
    /\ UNCHANGED <<now, conn_open, rec_seq, chunk_seq, llm_lock, llm_running,
                   llm_orphans, llm_model, sys_words, llm_ctx, req_seq, gateVars, toolVars, chunkVars, stopVars, pipeVars>>

\* a JSON envelope whose type is none of those _handle_json_message knows:
\* the warning is logged and the handler returns to its loop
RecvUnknown ==
    /\ pc[Handler] = "recv"
    /\ conn_open
    /\ obs.unknown < MaxUnknown
    /\ Commit(Handler, session, None, None, "recv", NoLoc,
              [obs EXCEPT !.unknown = @ + 1,
                          !.last = Ev("unknown_type", Handler, session.mode, <<>>)])
    /\ UNCHANGED <<now, conn_open, rec_seq, chunk_seq, llm_lock, llm_running,
                   llm_orphans, llm_model, sys_words, llm_ctx, req_seq, gateVars, toolVars, chunkVars, stopVars, pipeVars>>

\* the peer closes the connection
ConnClose ==
    /\ conn_open
    /\ conn_open' = FALSE
    /\ UNCHANGED <<now, session, rec_seq, chunk_seq, pc, loc, cancelled, llm_lock,
                   llm_running, llm_orphans, llm_model, sys_words, llm_ctx, req_seq, obs, gateVars, toolVars, chunkVars, stopVars, pipeVars>>

\* the message loop ends; the finally clause of handler resets the session
HandlerExit ==
    /\ pc[Handler] = "recv"
    /\ ~conn_open
    /\ Commit(Handler, _reset_stt_session(session, <<>>), CancelTarget(session, Handler),
              None, "closed", NoLoc, ObsReset(obs))
    /\ UNCHANGED <<now, conn_open, rec_seq, chunk_seq, llm_lock, llm_running,
                   llm_orphans, llm_model, sys_words, llm_ctx, req_seq, gateVars, toolVars, chunkVars, stopVars, pipeVars>>

\* time passes, unless a timer is due, a task is to be started or a
\* cancellation is to be delivered
Tick ==
    /\ now + TickMs <= MaxTimeMs
    /\ \A t \in TaskIds : ~TimerDue(t) /\ pc[t] # "created"
    /\ cancelled = {}
    /\ now' = now + TickMs
    /\ UNCHANGED <<conn_open, session, rec_seq, chunk_seq, pc, loc, cancelled, llm_lock,
                   llm_running, llm_orphans, llm_model, sys_words, llm_ctx, req_seq, obs, gateVars, toolVars, chunkVars, stopVars, pipeVars>>

(***************************************************************************)
(* The turn coordinator's gating token (ConversationCoordinator,           *)
(* SessionStore and StreamingPlaybackManager of src/core).                 *)
(***************************************************************************)
CallIds == {1, 2}
StreamIds == {1, 2}

NoOp == [op |-> "none", call |-> None, sid |-> None, attached |-> FALSE,
         cleared |-> FALSE, n |-> 0]

\* a variant that clears whatever token is held
clear_gating_token_any(tok, c, sid) == [tok EXCEPT ![c] = None]

\* SessionStore.clear_gating_token: the token map after a clear of call c
\* presenting stream id sid
clear_gating_token(tok, c, sid) ==
    IF tok[c] = sid THEN [tok EXCEPT ![c] = None] ELSE tok

\* the value clear_gating_token returns: cleared or not-cleared
clear_accepted(tok, c, sid) == clear_gating_token(tok, c, sid) # tok

\* ConversationCoordinator.on_tts_start(call_id, stream_id); the playback
\* manager registers the stream it starts
on_tts_start(c, sid) ==
    /\ last_op.n < MaxOps
    /\ gating_token' = [gating_token EXCEPT ![c] = sid]
    /\ active_streams' = [active_streams EXCEPT ![c] = sid]
    /\ last_op' = [op |-> "on_tts_start", call |-> c, sid |-> sid, attached |-> TRUE,
                   cleared |-> FALSE, n |-> last_op.n + 1]
    /\ UNCHANGED <<clear_calls, srvVars, pipeVars, toolVars, chunkVars, stopVars>>

\* ConversationCoordinator.on_tts_end / on_tts_cancel for the stream sid the
\* caller of the coordinator holds
CoordinatorClear(op, c, sid) ==
    /\ last_op.n < MaxOps
    /\ gating_token' = clear_gating_token(gating_token, c, sid)
    /\ clear_calls' = [clear_calls EXCEPT ![c] = @ + 1]
    /\ last_op' = [op |-> op, call |-> c, sid |-> sid, attached |-> TRUE,
                   cleared |-> clear_accepted(gating_token, c, sid),
                   n |-> last_op.n + 1]
    /\ UNCHANGED <<active_streams, srvVars, pipeVars, toolVars, chunkVars, stopVars>>

on_tts_end(c, sid) == CoordinatorClear("on_tts_end", c, sid)

on_tts_cancel(c, sid) == CoordinatorClear("on_tts_cancel", c, sid)

\* a variant in which the coordinator's clear is followed by the manager's own
end_segment_gating_both(c, attached) ==
    /\ last_op.n < MaxOps
    /\ active_streams[c] # None
    /\ gating_token' = clear_gating_token(gating_token, c, active_streams[c])
    /\ clear_calls' = [clear_calls EXCEPT ![c] = @ + (IF attached THEN 2 ELSE 1)]
    /\ active_streams' = [active_streams EXCEPT ![c] = None]
    /\ last_op' = [op |-> "end_segment_gating", call |-> c, sid |-> active_streams[c],
                   attached |-> attached,
                   cleared |-> clear_accepted(gating_token, c, active_streams[c]),
                   n |-> last_op.n + 1]
    /\ UNCHANGED <<srvVars, pipeVars, toolVars, chunkVars, stopVars>>

\* StreamingPlaybackManager.end_segment_gating(call_id): through the
\* coordinator when one is attached, through the session store otherwise
end_segment_gating(c, attached) ==
    /\ last_op.n < MaxOps
    /\ active_streams[c] # None
    /\ gating_token' = clear_gating_token(gating_token, c, active_streams[c])
    /\ clear_calls' = [clear_calls EXCEPT ![c] = @ + 1]
    /\ active_streams' = [active_streams EXCEPT ![c] = None]
    /\ last_op' = [op |-> "end_segment_gating", call |-> c, sid |-> active_streams[c],
                   attached |-> attached,
                   cleared |-> clear_accepted(gating_token, c, active_streams[c]),
                   n |-> last_op.n + 1]
    /\ UNCHANGED <<srvVars, pipeVars, toolVars, chunkVars, stopVars>>

GateInit ==
    /\ gating_token = [c \in CallIds |-> None]
    /\ active_streams = [c \in CallIds |-> None]
    /\ clear_calls = [c \in CallIds |-> 0]
    /\ last_op = NoOp

(***************************************************************************)
(* The pipeline adapters of src/pipelines/local.py: one adapter, one       *)
(* call_id.  A websocket is identified by the order of its creation; the   *)
(* _LocalSessionState built around it carries the same identity.           *)
(***************************************************************************)
Sockets == 1..MaxConns
Callers == {"a", "b"}

\* asyncio.Queue items: transcripts are strings, None ends the stream
Sentinel == "<None>"
PartialWord == "p"
FinalNames == <<"f1", "f2", "f3", "f4", "f5">>

Msg(type, req) == [type |-> type, req |-> req, is_partial |-> FALSE, text |-> ""]
SttResult(n, partial, text) ==
    [type |-> "stt_result", req |-> n, is_partial |-> partial, text |-> text]

\* a websocket: its state, the types of the messages sent on it, the messages
\* that reached the client and wait for recv(), the server's unanswered ones,
\* the audio envelopes of send_audio in the order they were written
NoSocket == [state |-> "none", sent |-> <<>>, inbox |-> <<>>, unanswered |-> <<>>,
             chunks |-> <<>>]

\* locals of an adapter coroutine: the operation, the session it holds, the
\* request it sent, the request the returned reply answers, the outcome;
\* repeat records that the caller's previous operation was the same one and
\* had returned; text is the text argument of synthesize, partial_text of
\* transcribe and with fmt the arguments of send_audio; yielded are the values yielded or returned; seen are the
\* messages the operation's receive loop has taken
NoCall == [op |-> "none", ws |-> None, req |-> 0, reply |-> 0, result |-> "none",
           repeat |-> FALSE, text |-> "", fmt |-> "", yielded |-> <<>>, seen |-> <<>>]

\* the streaming fields of a _LocalSessionState; receiver_task is "none" for
\* None, else the position of _stream_receive_loop; text is the transcript a
\* blocked queue.put holds; lock_holder and lock_waiters are the state of the
\* asyncio.Lock in send_lock
NoStream == [send_lock |-> FALSE, result_queue |-> FALSE, receiver_task |-> "none",
             cancel |-> FALSE, text |-> "", lock_holder |-> "", lock_waiters |-> <<>>]

\* the coroutine iterating iter_results
NoConsumer == [pc |-> "idle", session |-> None, yielded |-> <<>>]

RecvPcs == {"handshake", "await_reply"}

\* another coroutine is already waiting in recv() on the websocket
Receiving(w, c) ==
    \/ \E d \in Callers \ {c} : apc[d] \in RecvPcs /\ aloc[d].ws = w
    \/ stream[w].receiver_task = "recv"

\* a caller of the adapter is waiting in recv() on the websocket
ReaderWaiting(w) == \E d \in Callers : apc[d] \in RecvPcs /\ aloc[d].ws = w

Live(reg, ws) == reg # None /\ ws[reg].state = "open"

AStep(ws2, reg2, hc2, c, pc2, loc2, rs2) ==
    /\ websockets' = ws2
    /\ _sessions' = reg2
    /\ handshake_complete' = hc2
    /\ apc' = [apc EXCEPT ![c] = pc2]
    /\ aloc' = [aloc EXCEPT ![c] = loc2]
    /\ request_seq' = rs2

\* the type of the request an operation sends
RequestType(op) ==
    CASE op = "synthesize" -> "tts_request"
      [] op = "transcribe" -> "audio"
      [] OTHER -> "llm_request"

\* generate / synthesize / transcribe from _send_json(request) to the first
\* recv()
send_request(c, al, w, ws2, reg2, hc2) ==
    LET r == request_seq + 1
        ws3 == [ws2 EXCEPT ![w].sent = Append(@, RequestType(al.op)),
                           ![w].unanswered = Append(@, Msg(RequestType(al.op), r))]
    IN  /\ IF Receiving(w, c)
           THEN AStep(ws3, reg2, hc2, c, "idle",
                      [al EXCEPT !.ws = w, !.req = r, !.result = "raised"], r)
           ELSE AStep(ws3, reg2, hc2, c, "await_reply",
                      [al EXCEPT !.ws = w, !.req = r], r)
        /\ UNCHANGED streamVars

\* start_stream after _ensure_session: the lock, the queue, the receiver task
start_stream(c, al, w, ws2, reg2, hc2) ==
    /\ AStep(ws2, reg2, hc2, c, "idle", [al EXCEPT !.ws = w, !.result = "ok"],
             request_seq)
    /\ stream' = [stream EXCEPT ![w].send_lock = TRUE, ![w].result_queue = TRUE,
                                ![w].receiver_task =
                                    IF @ \in {"none", "done"} THEN "created" ELSE @]
    /\ IF stream[w].result_queue
       THEN UNCHANGED <<queue, received>>
       ELSE /\ queue' = [queue EXCEPT ![w] = <<>>]
            /\ received' = [received EXCEPT ![w] = <<>>]
    /\ UNCHANGED <<consumer, result_seq>>

\* _ensure_session has returned a live session to the operation
after_ensure(c, al, w, ws2, reg2, hc2) ==
    IF al.op = "start_stream"
    THEN start_stream(c, al, w, ws2, reg2, hc2)
    ELSE send_request(c, al, w, ws2, reg2, hc2)

\* open_call has returned: its caller, or _ensure_session and the operation
\* that called it
after_open(c, al, ws2, reg2, hc2) ==
    IF al.op = "open_call"
    THEN /\ AStep(ws2, reg2, hc2, c, "idle", [al EXCEPT !.result = "ok"], request_seq)
         /\ UNCHANGED streamVars
    ELSE IF Live(reg2, ws2)
    THEN after_ensure(c, al, reg2, ws2, reg2, hc2)
    ELSE /\ AStep(ws2, reg2, hc2, c, "idle", [al EXCEPT !.result = "raised"],
                  request_seq)
         /\ UNCHANGED streamVars

\* open_call up to 'await websockets.connect(...)'
open_call(c, al) ==
    IF _closed
    THEN /\ AStep(websockets, _sessions, handshake_complete, c, "idle",
                  [al EXCEPT !.result = "raised"], request_seq)
         /\ UNCHANGED streamVars
    ELSE IF Live(_sessions, websockets)
    THEN after_open(c, [al EXCEPT !.ws = _sessions], websockets, _sessions,
                    handshake_complete)
    ELSE /\ AStep(websockets, None, handshake_complete, c, "connect", al, request_seq)
         /\ UNCHANGED streamVars

OpenCall(c) ==
    /\ apc[c] = "idle"
    /\ call_seq < MaxAdapterCalls
    /\ call_seq' = call_seq + 1
    /\ open_call(c, [NoCall EXCEPT !.op = "open_call"])
    /\ UNCHANGED <<srvVars, gateVars, toolVars, chunkVars, stopVars>>

\* _ensure_session: the live registered session, or open_call
_ensure_session(c, al) ==
    IF Live(_sessions, websockets)
    THEN after_ensure(c, al, _sessions, websockets, _sessions, handshake_complete)
    ELSE open_call(c, al)

generate(c) ==
    /\ apc[c] = "idle"
    /\ call_seq < MaxAdapterCalls
    /\ call_seq' = call_seq + 1
    /\ _ensure_session(c, [NoCall EXCEPT !.op = "generate"])
    /\ UNCHANGED <<srvVars, gateVars, toolVars, chunkVars, stopVars>>

\* websockets.connect returns: the session is registered, set_mode is sent
ConnectDone(c) ==
    /\ apc[c] = "connect"
    /\ \E w \in Sockets :
         /\ websockets[w].state = "none"
         /\ \A v \in Sockets : v < w => websockets[v].state # "none"
         /\ AStep([websockets EXCEPT ![w] =
                     [NoSocket EXCEPT !.state = "open", !.sent = <<"set_mode">>,
                                      !.unanswered = <<Msg("set_mode", 0)>>]],
                  w, handshake_complete, c, "handshake",
                  [aloc[c] EXCEPT !.ws = w], request_seq)
    /\ UNCHANGED <<call_seq, srvVars, gateVars, toolVars, chunkVars, stopVars, streamVars>>

\* websockets.connect raises or times out: open_call re-raises
ConnectFail(c) ==
    /\ apc[c] = "connect"
    /\ AStep(websockets, _sessions, handshake_complete, c, "idle",
             [aloc[c] EXCEPT !.result = "raised"], request_seq)
    /\ UNCHANGED <<call_seq, srvVars, gateVars, toolVars, chunkVars, stopVars, streamVars>>

\* _await_mode_ready receives a message: mode_ready completes the handshake,
\* anything else is ignored
HandshakeRecv(c) ==
    LET w == aloc[c].ws
        m == Head(websockets[w].inbox)
        ws2 == [websockets EXCEPT ![w].inbox = Tail(@)]
    IN  /\ apc[c] = "handshake"
        /\ websockets[w].inbox # <<>>
        /\ IF m.type = "mode_ready"
           THEN after_open(c, aloc[c], ws2, _sessions,
                           [handshake_complete EXCEPT ![w] = TRUE])
           ELSE /\ AStep(ws2, _sessions, handshake_complete, c, "handshake", aloc[c],
                         request_seq)
                /\ UNCHANGED streamVars
        /\ UNCHANGED <<call_seq, srvVars, gateVars, toolVars, chunkVars, stopVars>>

\* open_call as it would be without the try around _await_mode_ready
HandshakeTimeoutRaises(c) ==
    /\ apc[c] = "handshake"
    /\ AStep(websockets, _sessions, handshake_complete, c, "idle",
             [aloc[c] EXCEPT !.result = "raised"], request_seq)
    /\ UNCHANGED <<call_seq, srvVars, gateVars, toolVars, chunkVars, stopVars, streamVars>>

\* the handshake deadline passes, or the connection closes under recv():
\* open_call logs a warning and proceeds
HandshakeTimeout(c) ==
    /\ apc[c] = "handshake"
    /\ after_open(c, aloc[c], websockets, _sessions, handshake_complete)
    /\ UNCHANGED <<call_seq, srvVars, gateVars, toolVars, chunkVars, stopVars>>

\* generate receives a message: the first llm_response is returned
GenerateRecv(c) ==
    LET w == aloc[c].ws
        m == Head(websockets[w].inbox)
        ws2 == [websockets EXCEPT ![w].inbox = Tail(@)]
    IN  /\ apc[c] = "await_reply"
        /\ aloc[c].op = "generate"
        /\ websockets[w].inbox # <<>>
        /\ IF m.type = "llm_response"
           THEN AStep(ws2, _sessions, handshake_complete, c, "idle",
                      [aloc[c] EXCEPT !.reply = m.req, !.result = "ok"], request_seq)
           ELSE AStep(ws2, _sessions, handshake_complete, c, "await_reply", aloc[c],
                      request_seq)
        /\ UNCHANGED <<call_seq, srvVars, gateVars, toolVars, chunkVars, stopVars, streamVars>>

\* no message within the response timeout: TimeoutError leaves the operation
GenerateTimeout(c) ==
    /\ apc[c] = "await_reply"
    /\ websockets[aloc[c].ws].inbox = <<>>
    /\ AStep(websockets, _sessions, handshake_complete, c, "idle",
             [aloc[c] EXCEPT !.result = "timeout"], request_seq)
    /\ UNCHANGED <<call_seq, srvVars, gateVars, toolVars, chunkVars, stopVars, streamVars>>

\* the connection closes under recv(): ConnectionClosed leaves the operation
GenerateClosed(c) ==
    /\ apc[c] = "await_reply"
    /\ websockets[aloc[c].ws].state = "closed"
    /\ websockets[aloc[c].ws].inbox = <<>>
    /\ AStep(websockets, _sessions, handshake_complete, c, "idle",
             [aloc[c] EXCEPT !.result = "raised"], request_seq)
    /\ UNCHANGED <<call_seq, srvVars, gateVars, toolVars, chunkVars, stopVars, streamVars>>

\* _LocalAdapterBase.close_call: pop the session, close its websocket
base_close_call(ws) ==
    IF _sessions = None THEN ws
    ELSE [ws EXCEPT ![_sessions].state = "closed", ![_sessions].unanswered = <<>>]

close_call(c) ==
    /\ apc[c] = "idle"
    /\ call_seq < MaxAdapterCalls
    /\ call_seq' = call_seq + 1
    /\ AStep(base_close_call(websockets), None, handshake_complete, c, "idle",
             [NoCall EXCEPT !.op = "close_call", !.result = "ok"], request_seq)
    /\ UNCHANGED <<srvVars, gateVars, toolVars, chunkVars, stopVars, streamVars>>

\* _LocalAdapterBase.stop: set _closed, close the call of every session
stop(c) ==
    /\ apc[c] = "idle"
    /\ call_seq < MaxAdapterCalls
    /\ call_seq' = call_seq + 1
    /\ _closed' = TRUE
    /\ AStep(base_close_call(websockets), None, handshake_complete, c, "idle",
             [NoCall EXCEPT !.op = "stop", !.result = "ok"], request_seq)
    /\ UNCHANGED <<srvVars, gateVars, toolVars, chunkVars, streamVars>>

\* the local AI server answers the oldest message of a connection: mode_ready
\* for set_mode, llm_response for llm_request
ServerReply(w) ==
    LET m == Head(websockets[w].unanswered)
        reply == IF m.type = "set_mode" THEN Msg("mode_ready", 0)
                 ELSE Msg("llm_response", m.req)
    IN  /\ websockets[w].state = "open"
        /\ websockets[w].unanswered # <<>>
        /\ m.type \in {"set_mode", "llm_request"}
        /\ websockets' = [websockets EXCEPT ![w].unanswered = Tail(@),
                                            ![w].inbox = Append(@, reply)]
        /\ UNCHANGED <<_sessions, handshake_complete, apc, aloc, request_seq, call_seq,
                       srvVars, gateVars, toolVars, chunkVars, stopVars, streamVars>>

\* a message of another type reaches the client
ServerOther(w) ==
    /\ websockets[w].state = "open"
    /\ websockets[w].inbox = <<>>
    /\ websockets' = [websockets EXCEPT ![w].inbox = <<Msg("other", 0)>>]
    /\ UNCHANGED <<_sessions, handshake_complete, apc, aloc, request_seq, call_seq,
                   srvVars, gateVars, toolVars, chunkVars, stopVars, streamVars>>

\* the server or the network closes the connection
ChannelClose(w) ==
    /\ websockets[w].state = "open"
    /\ websockets' = [websockets EXCEPT ![w].state = "closed", ![w].unanswered = <<>>]
    /\ UNCHANGED <<_sessions, handshake_complete, apc, aloc, request_seq, call_seq,
                   srvVars, gateVars, toolVars, chunkVars, stopVars, streamVars>>

(***************************************************************************)
(* LocalSTTAdapter streaming: start_stream, send_audio, stop_stream, the   *)
(* receive loop and the consumer of iter_results.                          *)
(***************************************************************************)
\* queue.put_nowait(item) under 'except asyncio.QueueFull: pass'
put_nowait_or_drop(q, item) ==
    IF Len(q) < stream_queue_maxsize THEN Append(q, item) ELSE q

\* (message.get("text") or ""): a missing or null text becomes ""
text_or_empty(m) == IF m.text = Sentinel THEN "" ELSE m.text

\* the receive loop as it would be if a full queue dropped the transcript
put_result_or_drop(q, text) ==
    IF Len(q) < stream_queue_maxsize
    THEN [queue |-> Append(q, text), receiver_task |-> "recv", text |-> ""]
    ELSE [queue |-> q, receiver_task |-> "recv", text |-> ""]

\* queue.put_nowait(text), and 'await queue.put(text)' when the queue is full
put_result(q, text) ==
    IF Len(q) < stream_queue_maxsize
    THEN [queue |-> Append(q, text), receiver_task |-> "recv", text |-> ""]
    ELSE [queue |-> q, receiver_task |-> "put", text |-> text]

\* a blocked queue.get() has an item: the consumer was woken, and it runs
\* before any step the event loop schedules later
WakePending == consumer.pc = "blocked" /\ queue[consumer.session] # <<>>

StartStream(c) ==
    /\ apc[c] = "idle"
    /\ call_seq < MaxStreamCalls
    /\ call_seq' = call_seq + 1
    /\ consumer.session = None \/ consumer.session # _sessions
    /\ _ensure_session(c, [NoCall EXCEPT !.op = "start_stream"])
    /\ UNCHANGED <<srvVars, gateVars, toolVars, chunkVars, stopVars>>

\* the audio and fmt arguments of send_audio; a chunk is named by the number
\* of the call that passes it
Chunk == "x"
Audios == {"", Chunk}
DefaultFmt == "pcm16_16k"
Formats == {DefaultFmt, "MULAW8K", "opus"}

\* fmt.lower() of the formats of the model
lower(fmt) == IF fmt = "MULAW8K" THEN "mulaw8k" ELSE fmt

\* the formats _to_pcm16_16k converts; any other raises ValueError
Convertible ==
    {"pcm16", "pcm16_16k", "pcm16-16k", "pcm16_8k", "pcm16-8k", "mulaw8k", "ulaw8k"}

AudioEnvelope(n) == [mode |-> "stt", rate |-> 16000, format |-> "pcm16le", data |-> n]

\* send_audio holding the send lock: _send_json, which raises on a closed
\* websocket; an accepted send returns at once or suspends in the write
send_locked(c, al, w, suspend) ==
    IF websockets[w].state = "open"
    THEN LET ws2 == [websockets EXCEPT ![w].sent = Append(@, "audio"),
                                       ![w].chunks = Append(@, AudioEnvelope(al.req))]
         IN  IF suspend
             THEN /\ AStep(ws2, _sessions, handshake_complete, c, "sending", al,
                           request_seq)
                  /\ stream' = [stream EXCEPT ![w].lock_holder = c,
                                              ![w].lock_waiters =
                                                  SelectSeq(@, LAMBDA d : d # c)]
             ELSE /\ AStep(ws2, _sessions, handshake_complete, c, "idle",
                           [al EXCEPT !.result = "ok"], request_seq)
                  /\ stream' = [stream EXCEPT ![w].lock_waiters =
                                                  SelectSeq(@, LAMBDA d : d # c)]
    ELSE /\ AStep(websockets, _sessions, handshake_complete, c, "idle",
                  [al EXCEPT !.result = "raised"], request_seq)
         /\ stream' = [stream EXCEPT ![w].lock_waiters = SelectSeq(@, LAMBDA d : d # c)]

send_audio(c, audio, fmt, suspend) ==
    /\ apc[c] = "idle"
    /\ call_seq < MaxStreamCalls
    /\ call_seq' = call_seq + 1
    /\ LET w == _sessions
           al == [NoCall EXCEPT !.op = "send_audio", !.text = audio, !.fmt = fmt,
                                !.req = call_seq + 1]
       IN  IF audio = ""
           THEN /\ AStep(websockets, _sessions, handshake_complete, c, "idle",
                         [al EXCEPT !.result = "ok"], request_seq)
                /\ UNCHANGED stream
           ELSE IF w = None \/ ~stream[w].send_lock
           THEN /\ AStep(websockets, _sessions, handshake_complete, c, "idle",
                         [al EXCEPT !.result = "raised"], request_seq)
                /\ UNCHANGED stream
           ELSE IF lower(fmt) \notin Convertible
           THEN /\ AStep(websockets, _sessions, handshake_complete, c, "idle",
                         [al EXCEPT !.ws = w, !.result = "raised"], request_seq)
                /\ UNCHANGED stream
           ELSE IF stream[w].lock_holder # "" \/ stream[w].lock_waiters # <<>>
           THEN /\ AStep(websockets, _sessions, handshake_complete, c, "lock_wait",
                         [al EXCEPT !.ws = w], request_seq)
                /\ stream' = [stream EXCEPT ![w].lock_waiters = Append(@, c)]
           ELSE send_locked(c, [al EXCEPT !.ws = w], w, suspend)
    /\ UNCHANGED <<queue, consumer, received, result_seq, srvVars, gateVars, toolVars, chunkVars, stopVars>>

\* the suspended websocket.send returns: the lock is released
SendDone(c) ==
    /\ apc[c] = "sending"
    /\ AStep(websockets, _sessions, handshake_complete, c, "idle",
             [aloc[c] EXCEPT !.result = "ok"], request_seq)
    /\ stream' = [stream EXCEPT ![aloc[c].ws].lock_holder = IF @ = c THEN "" ELSE @]
    /\ UNCHANGED <<call_seq, queue, consumer, received, result_seq, srvVars, gateVars, toolVars, chunkVars, stopVars>>

\* the first waiter of the released lock acquires it and sends
LockAcquire(c, suspend) ==
    LET w == aloc[c].ws
    IN  /\ apc[c] = "lock_wait"
        /\ stream[w].lock_holder = ""
        /\ stream[w].lock_waiters # <<>>
        /\ Head(stream[w].lock_waiters) = c
        /\ send_locked(c, aloc[c], w, suspend)
        /\ UNCHANGED <<call_seq, queue, consumer, received, result_seq, srvVars,
                       gateVars, toolVars, chunkVars, stopVars>>

\* stop_stream that puts the sentinel whether or not a queue is left
stop_finish_always_put(c, al, w) ==
    /\ queue' = [queue EXCEPT ![w] = put_nowait_or_drop(@, Sentinel)]
    /\ stream' = [stream EXCEPT ![w] = NoStream]
    /\ AStep(IF al.op = "close_call" THEN base_close_call(websockets) ELSE websockets,
             IF al.op = "close_call" THEN None ELSE _sessions,
             handshake_complete, c, "idle", [al EXCEPT !.result = "ok"], request_seq)
    /\ UNCHANGED <<consumer, received, result_seq>>

\* stop_stream once the receive loop has ended: the sentinel, the fields set
\* to None; for close_call, _LocalAdapterBase.close_call after it
stop_finish(c, al, w) ==
    /\ queue' = IF stream[w].result_queue
                THEN [queue EXCEPT ![w] = put_nowait_or_drop(@, Sentinel)]
                ELSE queue
    /\ stream' = [stream EXCEPT ![w] = NoStream]
    /\ AStep(IF al.op = "close_call" THEN base_close_call(websockets) ELSE websockets,
             IF al.op = "close_call" THEN None ELSE _sessions,
             handshake_complete, c, "idle", [al EXCEPT !.result = "ok"], request_seq)
    /\ UNCHANGED <<consumer, received, result_seq>>

\* stop_stream, and LocalSTTAdapter.close_call, up to 'await receiver_task'
StopStream(c, op) ==
    /\ apc[c] = "idle"
    /\ call_seq < MaxStreamCalls
    /\ call_seq' = call_seq + 1
    /\ LET w == _sessions
           al == [NoCall EXCEPT !.op = op, !.ws = w,
                                !.repeat = (aloc[c].op = op /\ aloc[c].result = "ok")]
       IN  IF w = None
           THEN /\ AStep(websockets, None, handshake_complete, c, "idle",
                         [al EXCEPT !.result = "ok"], request_seq)
                /\ UNCHANGED streamVars
           ELSE IF stream[w].receiver_task \in {"created", "recv", "put"}
           THEN /\ AStep(websockets, _sessions, handshake_complete, c, "stopping", al,
                         request_seq)
                /\ stream' = [stream EXCEPT ![w].cancel = TRUE]
                /\ UNCHANGED <<queue, consumer, received, result_seq>>
           ELSE stop_finish(c, al, w)
    /\ UNCHANGED <<srvVars, gateVars, toolVars, chunkVars, stopVars>>

StopStreamEnd(c) ==
    /\ apc[c] = "stopping"
    /\ stream[aloc[c].ws].receiver_task = "done"
    /\ ~WakePending
    /\ stop_finish(c, aloc[c], aloc[c].ws)
    /\ UNCHANGED <<call_seq, srvVars, gateVars, toolVars, chunkVars, stopVars>>

\* the receiver task takes its first step: queue = session.result_queue
ReceiverStart(w) ==
    /\ stream[w].receiver_task = "created"
    /\ ~stream[w].cancel
    /\ IF stream[w].result_queue /\ ReaderWaiting(w)
       THEN \* recv() raises: the loop ends through 'except Exception' and finally
            /\ stream' = [stream EXCEPT ![w].receiver_task = "done"]
            /\ queue' = [queue EXCEPT ![w] = put_nowait_or_drop(@, Sentinel)]
       ELSE /\ stream' = [stream EXCEPT ![w].receiver_task =
                                    IF stream[w].result_queue THEN "recv" ELSE "done"]
            /\ UNCHANGED queue
    /\ UNCHANGED <<consumer, received, result_seq, adapterVars, srvVars, gateVars, toolVars, chunkVars, stopVars>>

\* one message of the receive loop: partials and other messages are skipped,
\* a final is put on the queue
ReceiverRecv(w) ==
    LET m == Head(websockets[w].inbox)
        put == put_result(queue[w], text_or_empty(m))
    IN  /\ stream[w].receiver_task = "recv"
        /\ ~stream[w].cancel
        /\ websockets[w].inbox # <<>>
        /\ websockets' = [websockets EXCEPT ![w].inbox = Tail(@)]
        /\ IF m.type # "stt_result" \/ m.is_partial
           THEN UNCHANGED <<stream, queue, received>>
           ELSE /\ received' = [received EXCEPT ![w] = Append(@, m.text)]
                /\ queue' = [queue EXCEPT ![w] = put.queue]
                /\ stream' = [stream EXCEPT ![w].receiver_task = put.receiver_task,
                                            ![w].text = put.text]
        /\ UNCHANGED <<consumer, result_seq, _sessions, handshake_complete, apc, aloc,
                       request_seq, call_seq, srvVars, gateVars, toolVars, chunkVars, stopVars>>

\* 'await queue.put(text)' returns once the queue has room
ReceiverPut(w) ==
    /\ stream[w].receiver_task = "put"
    /\ ~stream[w].cancel
    /\ Len(queue[w]) < stream_queue_maxsize
    /\ queue' = [queue EXCEPT ![w] = Append(@, stream[w].text)]
    /\ stream' = [stream EXCEPT ![w].receiver_task = "recv", ![w].text = ""]
    /\ UNCHANGED <<consumer, received, result_seq, adapterVars, srvVars, gateVars, toolVars, chunkVars, stopVars>>

\* recv() raises ConnectionClosed: the loop ends through its finally
ReceiverClosed(w) ==
    /\ stream[w].receiver_task = "recv"
    /\ ~stream[w].cancel
    /\ websockets[w].state = "closed"
    /\ websockets[w].inbox = <<>>
    /\ ~WakePending
    /\ queue' = [queue EXCEPT ![w] = put_nowait_or_drop(@, Sentinel)]
    /\ stream' = [stream EXCEPT ![w].receiver_task = "done"]
    /\ UNCHANGED <<consumer, received, result_seq, adapterVars, srvVars, gateVars, toolVars, chunkVars, stopVars>>

\* the cancelled receiver task: CancelledError at its await and the finally,
\* or no step at all when it had not started
ReceiverCancelled(w) ==
    /\ stream[w].cancel
    /\ ~WakePending
    /\ stream[w].receiver_task \in {"created", "recv", "put"}
    /\ queue' = IF stream[w].receiver_task = "created" THEN queue
                ELSE [queue EXCEPT ![w] = put_nowait_or_drop(@, Sentinel)]
    /\ stream' = [stream EXCEPT ![w].receiver_task = "done", ![w].text = ""]
    /\ UNCHANGED <<consumer, received, result_seq, adapterVars, srvVars, gateVars, toolVars, chunkVars, stopVars>>

\* result = queue.get() has an item: None ends the iteration, a transcript
\* is yielded
iter_take(w, cons) ==
    LET result == Head(queue[w])
    IN  /\ queue' = [queue EXCEPT ![w] = Tail(@)]
        /\ consumer' = IF result = Sentinel
                       THEN [cons EXCEPT !.pc = "done"]
                       ELSE [cons EXCEPT !.pc = "busy", !.yielded = Append(@, result)]

\* 'result = await session.result_queue.get()' of iter_results
iter_get(w, cons) ==
    IF ~stream[w].result_queue
    THEN /\ consumer' = [cons EXCEPT !.pc = "raised"]
         /\ UNCHANGED queue
    ELSE IF queue[w] = <<>>
    THEN /\ consumer' = [cons EXCEPT !.pc = "blocked"]
         /\ UNCHANGED queue
    ELSE iter_take(w, cons)

\* the consumer starts iterating the started stream of the call
IterBegin ==
    /\ consumer.pc = "idle"
    /\ _sessions # None
    /\ stream[_sessions].result_queue
    /\ iter_get(_sessions, [consumer EXCEPT !.session = _sessions])
    /\ UNCHANGED <<stream, received, result_seq, adapterVars, srvVars, gateVars, toolVars, chunkVars, stopVars>>

\* the consumer is done with the transcript it was given and asks for the next
IterResume ==
    /\ consumer.pc = "busy"
    /\ iter_get(consumer.session, consumer)
    /\ UNCHANGED <<stream, received, result_seq, adapterVars, srvVars, gateVars, toolVars, chunkVars, stopVars>>

\* the blocked queue.get() returns
IterWake ==
    /\ consumer.pc = "blocked"
    /\ queue[consumer.session] # <<>>
    /\ iter_take(consumer.session, consumer)
    /\ UNCHANGED <<stream, received, result_seq, adapterVars, srvVars, gateVars, toolVars, chunkVars, stopVars>>

\* the local AI server sends an stt_result for the audio it was sent: a
\* partial, or a final with a text or with an empty text
ServerResult(w) ==
    /\ websockets[w].state = "open"
    /\ \E i \in DOMAIN websockets[w].sent : websockets[w].sent[i] = "audio"
    /\ result_seq < MaxResults
    /\ result_seq' = result_seq + 1
    /\ \E m \in {SttResult(result_seq + 1, TRUE, PartialWord),
                 SttResult(result_seq + 1, FALSE, ""),
                 SttResult(result_seq + 1, FALSE, FinalNames[result_seq + 1])} :
         websockets' = [websockets EXCEPT ![w].inbox = Append(@, m)]
    /\ UNCHANGED <<_sessions, handshake_complete, apc, aloc, request_seq, call_seq,
                   stream, queue, consumer, received, srvVars, gateVars, toolVars, chunkVars, stopVars>>

(***************************************************************************)
(* LocalTTSAdapter.synthesize and LocalSTTAdapter.transcribe: one request, *)
(* then a receive loop until the response, the timeout or the close.       *)
(***************************************************************************)
\* base64 texts a tts_response can carry in audio_data, and what
\* base64.b64decode makes of them
AudioData == {"", "QUI="}

b64decode(s) ==
    CASE s = "QQ==" -> "A"
      [] s = "QUI=" -> "AB"
      [] OTHER -> ""

\* binary frames of the server
Frames == {"A"}

\* str.strip() of the transcript texts of the model
strip(s) == IF s = " " THEN "" ELSE s

SynthTexts == {"", "hi"}

Frame(type, text) == [type |-> type, req |-> 0, is_partial |-> FALSE, text |-> text]

synthesize(c) ==
    /\ apc[c] = "idle"
    /\ call_seq < MaxAdapterCalls
    /\ call_seq' = call_seq + 1
    /\ \E text \in SynthTexts :
         IF text = ""
         THEN /\ AStep(websockets, _sessions, handshake_complete, c, "idle",
                       [NoCall EXCEPT !.op = "synthesize", !.result = "ok"],
                       request_seq)
              /\ UNCHANGED streamVars
         ELSE _ensure_session(c, [NoCall EXCEPT !.op = "synthesize", !.text = text])
    /\ UNCHANGED <<srvVars, gateVars, toolVars, chunkVars, stopVars>>

\* the audio synthesize yields for a message, Sentinel when it skips it
tts_payload_binary_only(m) == IF m.type = "binary" THEN m.text ELSE Sentinel

tts_payload(m) ==
    IF m.type = "tts_response" /\ m.text # "" THEN b64decode(m.text)
    ELSE IF m.type = "binary" THEN m.text
    ELSE Sentinel

\* synthesize receives a message: audio is yielded and the loop left, any
\* other message is skipped
SynthRecv(c) ==
    LET w == aloc[c].ws
        m == Head(websockets[w].inbox)
        ws2 == [websockets EXCEPT ![w].inbox = Tail(@)]
        al == [aloc[c] EXCEPT !.seen = Append(@, m)]
    IN  /\ apc[c] = "await_reply"
        /\ aloc[c].op = "synthesize"
        /\ websockets[w].inbox # <<>>
        /\ IF tts_payload(m) # Sentinel
           THEN AStep(ws2, _sessions, handshake_complete, c, "idle",
                      [al EXCEPT !.yielded = Append(@, tts_payload(m)), !.result = "ok"],
                      request_seq)
           ELSE AStep(ws2, _sessions, handshake_complete, c, "await_reply", al,
                      request_seq)
        /\ UNCHANGED <<call_seq, srvVars, gateVars, toolVars, chunkVars, stopVars, streamVars>>

transcribe(c) ==
    /\ apc[c] = "idle"
    /\ call_seq < MaxAdapterCalls
    /\ call_seq' = call_seq + 1
    /\ _ensure_session(c, [NoCall EXCEPT !.op = "transcribe"])
    /\ UNCHANGED <<srvVars, gateVars, toolVars, chunkVars, stopVars>>

\* transcribe receives a message: a partial is remembered, a final is
\* returned, any other message is skipped
TranscribeRecv(c) ==
    LET w == aloc[c].ws
        m == Head(websockets[w].inbox)
        ws2 == [websockets EXCEPT ![w].inbox = Tail(@)]
        al == [aloc[c] EXCEPT !.seen = Append(@, m)]
        text == strip(text_or_empty(m))
    IN  /\ apc[c] = "await_reply"
        /\ aloc[c].op = "transcribe"
        /\ websockets[w].inbox # <<>>
        /\ IF m.type # "stt_result"
           THEN AStep(ws2, _sessions, handshake_complete, c, "await_reply", al,
                      request_seq)
           ELSE IF m.is_partial
           THEN AStep(ws2, _sessions, handshake_complete, c, "await_reply",
                      [al EXCEPT !.text = IF text # "" THEN text ELSE @], request_seq)
           ELSE AStep(ws2, _sessions, handshake_complete, c, "idle",
                      [al EXCEPT !.yielded = <<IF text # "" THEN text ELSE al.text>>,
                                 !.result = "ok"], request_seq)
        /\ UNCHANGED <<call_seq, srvVars, gateVars, toolVars, chunkVars, stopVars, streamVars>>

\* the local AI server answers a tts_request that carries no request_id: one
\* binary frame, or nothing when process_tts returned no audio
ServerTts(w) ==
    /\ websockets[w].state = "open"
    /\ websockets[w].unanswered # <<>>
    /\ Head(websockets[w].unanswered).type = "tts_request"
    /\ \E audio \in Frames \cup {""} :
         websockets' = [websockets EXCEPT
                          ![w].unanswered = Tail(@),
                          ![w].inbox = IF audio = "" THEN @
                                       ELSE Append(@, Frame("binary", audio))]
    /\ UNCHANGED <<_sessions, handshake_complete, apc, aloc, request_seq, call_seq,
                   srvVars, gateVars, toolVars, chunkVars, stopVars, streamVars>>

\* the messages the receive loops tell apart, sent by a peer of either
\* framing: a tts_audio envelope, a tts_response, a binary frame, a blank
\* partial, a text that is not JSON
PeerMessages ==
    {Frame("tts_audio", ""), Frame("text", "")}
      \cup {Frame("tts_response", a) : a \in AudioData}
      \cup {Frame("binary", f) : f \in Frames}
      \cup {SttResult(0, TRUE, " ")}

PeerMessage(w) ==
    /\ websockets[w].state = "open"
    /\ websockets[w].inbox = <<>>
    /\ result_seq < MaxPeerMessages
    /\ result_seq' = result_seq + 1
    /\ \E m \in PeerMessages :
         websockets' = [websockets EXCEPT ![w].inbox = <<m>>]
    /\ UNCHANGED <<_sessions, handshake_complete, apc, aloc, request_seq, call_seq,
                   stream, queue, consumer, received, srvVars, gateVars, toolVars, chunkVars, stopVars>>

AdapterInit ==
    /\ websockets = [w \in Sockets |-> NoSocket]
    /\ _sessions = None
    /\ handshake_complete = [w \in Sockets |-> FALSE]
    /\ apc = [c \in Callers |-> "idle"]
    /\ aloc = [c \in Callers |-> NoCall]
    /\ request_seq = 0
    /\ call_seq = 0
    /\ stream = [w \in Sockets |-> NoStream]
    /\ queue = [w \in Sockets |-> <<>>]
    /\ consumer = NoConsumer
    /\ received = [w \in Sockets |-> <<>>]
    /\ result_seq = 0
    /\ _closed = FALSE

(***************************************************************************)
(* The live-agent transfer tool (src/tools/telephony/live_agent_transfer   *)
(* .py) and the unified transfer tool it delegates to.  A configuration    *)
(* is the "tools" section of the call's config: tools.transfer (enabled,   *)
(* live_agent_destination_key, destinations) and tools.extensions.internal.*)
(* Every destination and extension entry is a dict, every extension key    *)
(* is numeric; None is the empty string, which the code tests the same way.*)
(***************************************************************************)
DestKeys == {"live_agent", "support_agent"}
Targets == {"6000", "2765"}
TransferTypes == {"extension", "queue"}
Destination == [type : TransferTypes, target : Targets, live_agent : BOOLEAN]
\* "tier2_live" names no destination of the model
ConfiguredKeys == {"", "tier2_live"} \cup DestKeys
ExtensionKeys == {"6000", "7007"}
ExtensionNames == {"Live Agent", "Sales Agent"}
ExtensionAliases == {"live-agent", "sales"}
InternalExtension == [name : ExtensionNames, alias : ExtensionAliases,
                      live_agent : BOOLEAN, transfer : BOOLEAN]

Dicts(keys, values) == UNION {[d -> values] : d \in SUBSET keys}

ToolsConfigs ==
    [enabled : BOOLEAN,
     live_agent_destination_key : ConfiguredKeys,
     destinations : Dicts(DestKeys, Destination),
     internal : Dicts(ExtensionKeys, InternalExtension)]

NoToolsConfig ==
    [enabled |-> TRUE, live_agent_destination_key |-> "",
     destinations |-> <<>>, internal |-> <<>>]

NoToolResult == [status |-> "", message |-> "", destination |-> "", type |-> ""]
NoCallSession == [transfer_active |-> FALSE, transfer_state |-> "", transfer_target |-> ""]

\* the characters of the texts of the model
Chars(value) ==
    CASE value = "Live Agent" -> <<"L", "i", "v", "e", " ", "A", "g", "e", "n", "t">>
      [] value = "Sales Agent" -> <<"S", "a", "l", "e", "s", " ", "A", "g", "e", "n", "t">>
      [] value = "live-agent" -> <<"l", "i", "v", "e", "-", "a", "g", "e", "n", "t">>
      [] value = "live agent" -> <<"l", "i", "v", "e", " ", "a", "g", "e", "n", "t">>
      [] value = "sales" -> <<"s", "a", "l", "e", "s">>
      [] value = "live_agent" -> <<"l", "i", "v", "e", "_", "a", "g", "e", "n", "t">>
      [] value = "support_agent" -> <<"s", "u", "p", "p", "o", "r", "t", "_", "a", "g", "e", "n", "t">>
      [] value = "Support Agent" -> <<"S", "u", "p", "p", "o", "r", "t", " ", "A", "g", "e", "n", "t">>
      [] value = "support" -> <<"s", "u", "p", "p", "o", "r", "t">>
      [] value = "agent" -> <<"a", "g", "e", "n", "t">>
      [] value = "human" -> <<"h", "u", "m", "a", "n">>
      [] value = "person" -> <<"p", "e", "r", "s", "o", "n">>
      [] value = "representative" -> <<"r", "e", "p", "r", "e", "s", "e", "n", "t", "a", "t", "i", "v", "e">>
      [] value = "rep" -> <<"r", "e", "p">>
      [] value = "operator" -> <<"o", "p", "e", "r", "a", "t", "o", "r">>
      [] value = "live" -> <<"l", "i", "v", "e">>
      [] value = "billing" -> <<"b", "i", "l", "l", "i", "n", "g">>
      [] OTHER -> <<>>

Replace(s, old, new) == [i \in 1..Len(s) |-> IF s[i] = old THEN new ELSE s[i]]

\* LiveAgentTransferTool._normalize_text: strip, lower, '_' and '-' to blanks,
\* split and join with single blanks
normalize_label(value) ==
    Join(<<" ">>, Split(Replace(Replace(LowerText(Strip(value)), "_", " "), "-", " ")))

\* Python's "t in hay" on strings
Contains(hay, t) == \E i \in 1..(Len(hay) - Len(t) + 1) : SubSeq(hay, i, i + Len(t) - 1) = t

\* the entries of the model have a name and no description
_contains_live_agent(cfg) ==
    LET hay == Strip(normalize_label(Chars(cfg.name)) \o <<" ">> \o normalize_label(<<>>))
        tokens == Split(normalize_label(Chars("live agent")))
    IN  /\ tokens # <<>>
        /\ \A i \in 1..Len(tokens) : Contains(hay, tokens[i])

Resolved(key, source) == [key |-> key, source |-> source]

\* the chain without the configured key: exactly one flagged destination,
\* then the conventional key
resolve_unconfigured(destinations) ==
    LET live_agent_keys == {k \in DOMAIN destinations : destinations[k].live_agent}
    IN  IF Cardinality(live_agent_keys) = 1
        THEN Resolved(CHOOSE k \in live_agent_keys : TRUE, "destinations.<key>.live_agent")
        ELSE IF Cardinality(live_agent_keys) > 1
        THEN Resolved("", "destinations.live_agent_ambiguous")
        ELSE IF "live_agent" \in DOMAIN destinations
        THEN Resolved("live_agent", "default.live_agent_key")
        ELSE Resolved("", "unconfigured")

_resolve_live_agent_destination_key(transfer_cfg) ==
    LET destinations == transfer_cfg.destinations
        configured_key == transfer_cfg.live_agent_destination_key
    IN  IF DOMAIN destinations = {}
        THEN Resolved("", "no_destinations")
        ELSE IF configured_key # ""
        THEN IF /\ configured_key \in DOMAIN destinations
                /\ \/ destinations[configured_key].live_agent
                   \/ configured_key = "live_agent"
             THEN Resolved(configured_key, "config.live_agent_destination_key")
             ELSE Resolved("", "configured_key_missing")
        ELSE resolve_unconfigured(destinations)

Pick(matches, tier) ==
    IF Cardinality(matches) = 1
    THEN Resolved(CHOOSE e \in matches : TRUE, tier)
    ELSE Resolved("", tier \o "_ambiguous")

_resolve_live_agent_extension_from_internal_config(extensions_cfg) ==
    LET transferable == {e \in DOMAIN extensions_cfg : extensions_cfg[e].transfer}
        explicit_flag == {e \in transferable : extensions_cfg[e].live_agent}
        text_match == {e \in transferable : _contains_live_agent(extensions_cfg[e])}
        alias_match == {e \in transferable :
                          normalize_label(Chars(extensions_cfg[e].alias))
                            = Chars("live agent")}
    IN  IF DOMAIN extensions_cfg = {}
        THEN Resolved("", "extensions.internal.empty")
        ELSE IF explicit_flag # {}
        THEN Pick(explicit_flag, "extensions.internal.live_agent_flag")
        ELSE IF text_match # {}
        THEN Pick(text_match, "extensions.internal.text_live_agent")
        ELSE IF alias_match # {}
        THEN Pick(alias_match, "extensions.internal.alias_live_agent")
        ELSE Resolved("", "extensions.internal.unconfigured")

_map_extension_to_transfer_destination_key(extension, transfer_cfg) ==
    LET destinations == transfer_cfg.destinations
        matches == {k \in DOMAIN destinations :
                      /\ destinations[k].type = "extension"
                      /\ destinations[k].target = extension}
    IN  IF Cardinality(matches) = 1 THEN CHOOSE k \in matches : TRUE ELSE ""

Failed(message) == [NoToolResult EXCEPT !.status = "failed", !.message = message]

ValidTypes == {"extension", "queue", "ringgroup"}

\* what _transfer_to_extension, _transfer_to_queue and _transfer_to_ringgroup
\* do: the session update, the ARI continue and the returned dict
Transfer(type, target, description) ==
    [session |-> [transfer_active |-> TRUE,
                  transfer_state |-> CASE type = "extension" -> "transferring"
                                       [] type = "queue" -> "in_queue"
                                       [] OTHER -> "in_ringgroup",
                  transfer_target |-> description],
     command |-> [context |-> CASE type = "extension" -> "from-internal"
                                [] type = "queue" -> "ext-queues"
                                [] OTHER -> "ext-group",
                  extension |-> target, priority |-> 1],
     result |-> [status |-> "success", message |-> description,
                 destination |-> target, type |-> type]]

NoTransfer(message) ==
    [session |-> NoCallSession, command |-> <<>>, result |-> Failed(message)]

\* a transfer tool that skips the validation of the destination
UnifiedTransferTool_execute_unvalidated(destination, transfer_cfg) ==
    LET destinations == transfer_cfg.destinations
    IN  IF destination \in DOMAIN destinations
        THEN Transfer(destinations[destination].type,
                      destinations[destination].target, destination)
        ELSE Transfer("extension", destination, destination)

\* UnifiedTransferTool.execute({"destination": key}) for a key of destinations
UnifiedTransferTool_execute(destination, transfer_cfg) ==
    LET destinations == transfer_cfg.destinations
    IN  IF ~transfer_cfg.enabled
        THEN NoTransfer("Transfer service is disabled")
        ELSE IF DOMAIN destinations = {}
        THEN NoTransfer("Transfer service is not available")
        ELSE IF destination \notin DOMAIN destinations
        THEN NoTransfer("Unknown destination")
        ELSE IF destinations[destination].type \notin ValidTypes
        THEN NoTransfer("Invalid transfer type")
        ELSE Transfer(destinations[destination].type,
                      destinations[destination].target, destination)

\* the fallback of execute when no destination key was resolved
internal_extension_fallback(cfg) ==
    LET ext == _resolve_live_agent_extension_from_internal_config(cfg.internal)
        mapped_destination_key ==
            _map_extension_to_transfer_destination_key(ext.key, cfg)
    IN  IF ext.key = ""
        THEN NoTransfer("Live agent destination is not configured")
        ELSE IF mapped_destination_key # ""
        THEN UnifiedTransferTool_execute(mapped_destination_key, cfg)
        ELSE Transfer("extension", ext.key, cfg.internal[ext.key].name)

LiveAgentTransferTool_execute(cfg) ==
    LET resolved == _resolve_live_agent_destination_key(cfg)
    IN  IF ~cfg.enabled
        THEN NoTransfer("Transfer service is disabled")
        ELSE IF resolved.key = ""
        THEN internal_extension_fallback(cfg)
        ELSE UnifiedTransferTool_execute(resolved.key, cfg)

NoToolCall == [name |-> "", destination |-> ""]

\* one call of the tool on the call's configuration; the ARI accepts the command
execute ==
    /\ tool_pc = "idle"
    /\ LET out == LiveAgentTransferTool_execute(tools_config)
       IN  /\ tool_result' = out.result
           /\ call_session' = out.session
           /\ ari_commands' = IF out.command = <<>> THEN ari_commands
                              ELSE Append(ari_commands, out.command)
    /\ tool_call' = [name |-> "live_agent_transfer", destination |-> ""]
    /\ tool_pc' = "done"
    /\ UNCHANGED <<tools_config, srvVars, gateVars, pipeVars, chunkVars, stopVars>>

ToolStart(cfg) ==
    /\ tools_config = cfg
    /\ ari_commands = <<>>
    /\ call_session = NoCallSession
    /\ tool_call = NoToolCall
    /\ tool_pc = "idle"
    /\ tool_result = NoToolResult

ToolInit == ToolStart(NoToolsConfig)

(***************************************************************************)
(* The transfer tool called with a destination the model asked for, and    *)
(* the tool adapter that runs a tool (src/tools/adapters/google.py).  A    *)
(* dict is iterated in insertion order, which the configuration file       *)
(* fixes: where the code takes the first match of a loop, any match may be *)
(* the first.                                                              *)
(***************************************************************************)
Requests == {"", "support_agent", "Support Agent", "support", "agent", "human", "billing"}

StartsWith(s, prefix) == Len(prefix) <= Len(s) /\ SubSeq(s, 1, Len(prefix)) = prefix

human_intent_tokens ==
    {Chars(w) : w \in {"agent", "human", "person", "representative", "rep",
                       "operator", "live"}}

\* the keys _resolve_destination_key may return; {} is None.  The entries of
\* the model have no description, so the description loop matches nothing.
_resolve_destination_key(destination, destinations) ==
    LET raw == Strip(Chars(destination))
        normalized == normalize_label(raw)
        keys == DOMAIN destinations
        key_norm(k) == normalize_label(Chars(k))
        exact == {k \in keys : key_norm(k) = normalized}
        partial == {k \in keys : \/ StartsWith(key_norm(k), normalized)
                                 \/ Contains(key_norm(k), normalized)}
        tokens == Split(normalized)
        token_matches ==
            {k \in keys : \A i \in 1..Len(tokens) : Contains(Strip(key_norm(k)), tokens[i])}
        extension_keys == {k \in keys : destinations[k].type = "extension"}
    IN  IF raw = <<>> THEN {}
        ELSE IF destination \in keys THEN {destination}
        ELSE IF exact # {} THEN exact
        ELSE IF partial # {} THEN partial
        ELSE IF tokens # <<>> /\ Cardinality(token_matches) = 1 THEN token_matches
        ELSE IF /\ \E i \in 1..Len(tokens) : tokens[i] \in human_intent_tokens
                /\ Cardinality(extension_keys) = 1
        THEN extension_keys
        ELSE {}

\* UnifiedTransferTool.execute({"destination": destination}): its possible outcomes
transfer_outcomes(destination, transfer_cfg) ==
    LET destinations == transfer_cfg.destinations
        matched == IF destination # "" /\ destination \notin DOMAIN destinations
                   THEN _resolve_destination_key(destination, destinations)
                   ELSE {}
    IN  IF ~transfer_cfg.enabled \/ DOMAIN destinations = {} \/ matched = {}
        THEN {UnifiedTransferTool_execute(destination, transfer_cfg)}
        ELSE {UnifiedTransferTool_execute(k, transfer_cfg) : k \in matched}

ToolNames == {"transfer", "live_agent_transfer"}

tool_outcomes(name, destination, cfg) ==
    IF name = "transfer" THEN transfer_outcomes(destination, cfg)
    ELSE {LiveAgentTransferTool_execute(cfg)}

ToolError ==
    [NoToolResult EXCEPT !.status = "error", !.message = "Tool execution failed"]

\* GoogleToolAdapter.execute_tool: the tool runs; update_session precedes
\* send_command, and an exception of send_command becomes an error result.
\* ari_commands keeps every command handed to send_command.
execute_tool(name, destination, ari_ok) ==
    /\ tool_pc = "idle"
    /\ \E out \in tool_outcomes(name, destination, tools_config) :
          /\ tool_result' = IF out.command # <<>> /\ ~ari_ok THEN ToolError
                            ELSE out.result
          /\ call_session' = out.session
          /\ ari_commands' = IF out.command = <<>> THEN ari_commands
                             ELSE Append(ari_commands, out.command)
    /\ tool_call' = [name |-> name, destination |-> destination]
    /\ tool_pc' = "done"
    /\ UNCHANGED <<tools_config, srvVars, gateVars, pipeVars, chunkVars, stopVars>>

TransferCall == \E d \in Requests, ari_ok \in BOOLEAN : execute_tool("transfer", d, ari_ok)

LiveAgentCall == \E ari_ok \in BOOLEAN : execute_tool("live_agent_transfer", "", ari_ok)

AnyTypes == ValidTypes \cup {"conference"}
AnyDestination == [type : AnyTypes, target : {"6000"}, live_agent : BOOLEAN]
AnyExtension == [name : ExtensionNames, alias : {"sales"}, live_agent : {FALSE},
                 transfer : BOOLEAN]

TransferConfigs ==
    [enabled : BOOLEAN,
     live_agent_destination_key : {"", "support_agent"},
     destinations : Dicts(DestKeys, AnyDestination),
     internal : Dicts({"7007"}, AnyExtension)]

(***************************************************************************)
(* _chunk_audio of pipelines/openai.py: the generator that cuts converted  *)
(* audio into frames.  A byte of the audio is a number; the audio of       *)
(* length n is the bytes Byte(1) .. Byte(n).                               *)
(***************************************************************************)
SampleRates == {8000, 16000, 22050, 24000}
Encodings == {"ulaw", "G711_ULAW", "slin16", "pcm16"}
ChunkSizes == {1, 10, 20}
AudioStep == 63
MaxAudioSteps == 8
AudioLengths == {k * AudioStep : k \in 0..MaxAudioSteps}

Byte(i) == i % 256
AudioBytes(n) == [i \in 1..n |-> Byte(i)]

\* str.lower() on the encoding names of the model
EncodingLower(encoding) == IF encoding = "G711_ULAW" THEN "g711_ulaw" ELSE encoding

_bytes_per_sample(encoding) ==
    IF EncodingLower(encoding) \in {"ulaw", "mulaw", "mu-law", "g711_ulaw"} THEN 1 ELSE 2

\* max(bytes_per_sample, int(sample_rate * (chunk_ms / 1000.0) * bytes_per_sample)):
\* int() truncates the product
frame_size(encoding, sample_rate, chunk_ms) ==
    Max(_bytes_per_sample(encoding),
        (sample_rate * chunk_ms * _bytes_per_sample(encoding)) \div 1000)

\* audio_bytes[idx : idx + frame_size], idx counted from 0
Slice(audio_bytes, idx, size) ==
    SubSeq(audio_bytes, idx + 1, IF idx + size > Len(audio_bytes)
                                 THEN Len(audio_bytes) ELSE idx + size)

NoChunker == [audio_bytes |-> <<>>, encoding |-> "", sample_rate |-> 0, chunk_ms |-> 0,
              idx |-> 0, yielded |-> <<>>]

ChunkStart(n, encoding, sample_rate, chunk_ms) ==
    chunker = [NoChunker EXCEPT !.audio_bytes = AudioBytes(n), !.encoding = encoding,
                                !.sample_rate = sample_rate, !.chunk_ms = chunk_ms]

ChunkInit == chunker = NoChunker

\* one step of the generator: the next frame of range(0, len(audio_bytes), frame_size);
\* empty audio yields nothing
_chunk_audio ==
    /\ chunker.audio_bytes # <<>>
    /\ chunker.idx < Len(chunker.audio_bytes)
    /\ LET size == frame_size(chunker.encoding, chunker.sample_rate, chunker.chunk_ms)
       IN  chunker' = [chunker EXCEPT
                         !.yielded = Append(@, Slice(chunker.audio_bytes, chunker.idx, size)),
                         !.idx = @ + size]
    /\ UNCHANGED <<srvVars, gateVars, pipeVars, toolVars, stopVars>>

(***************************************************************************)
(* The specification of one connection of the local AI server.             *)
(***************************************************************************)

ServerStart(s) ==
    /\ now = StartMs
    /\ conn_open = TRUE
    /\ session = s
    /\ rec_seq = 0
    /\ chunk_seq = 0
    /\ pc = [q \in Procs |-> IF q \in TaskIds THEN "none" ELSE "recv"]
    /\ loc = [q \in Procs |-> NoLoc]
    /\ cancelled = {}
    /\ llm_lock = None
    /\ llm_running = {}
    /\ llm_orphans = 0
    /\ llm_model = TRUE
    /\ req_seq = 0
    /\ obs = NoObs

ServerInit == ServerStart(SessionContext)

Init ==
    /\ ServerInit
    /\ llm_ctx = llm_context
    /\ sys_words \in SysPromptWords
    /\ GateInit
    /\ AdapterInit
    /\ ToolInit
    /\ ChunkInit

Next ==
    \/ RecvAudio
    \/ PartialSentResume
    \/ RecvSetMode
    \/ ConnClose
    \/ HandlerExit
    \/ Tick
    \/ OrphanFinish
    \/ \E t \in TaskIds : IdleStart(t)
    \/ \E t \in TaskIds : IdleFire(t)
    \/ \E t \in TaskIds : IdleCancelled(t)
    \/ \E p \in {Handler} \cup TaskIds : EmptyFinalSentResume(p)
    \/ \E p \in {Handler} \cup TaskIds : FinalSentResume(p)
    \/ \E p \in {Handler} \cup TaskIds : LLMAcquire(p)
    \/ \E p \in {Handler} \cup TaskIds : LLMComplete(p)
    \/ \E p \in {Handler} \cup TaskIds : LLMTimeout(p)
    \/ \E p \in {Handler} \cup TaskIds : LlmRespSentResume(p)
    \/ \E p \in {Handler} \cup TaskIds : TtsMetaSentResume(p)
    \/ \E p \in {Handler} \cup TaskIds : TtsBytesSentResume(p)

Spec == Init /\ [][Next]_vars

(***************************************************************************)
(* The LLM of the process, used by two connections: llm_request messages   *)
(* and reload_models with its warm-up inference.                           *)
(***************************************************************************)
Conns == {Handler, Peer}

\* _handle_llm_request up to asyncio.wait_for(process_llm(text))
RecvLlmRequest(p) ==
    /\ p \in Conns
    /\ pc[p] = "recv"
    /\ req_seq < MaxRequests
    /\ req_seq' = req_seq + 1
    /\ \E text \in Texts :
         IF Strip(text) = <<>>
         THEN Return(p, session, None, obs)
         ELSE Commit(p, session, None, None, "llm_wait",
                     [NoLoc EXCEPT !.mode = "llm", !.ctx = "request",
                                   !.text = Strip(text), !.prompt = Strip(text)],
                     obs)
    /\ UNCHANGED <<now, conn_open, rec_seq, chunk_seq, llm_lock, llm_running,
                   llm_orphans, llm_model, sys_words, llm_ctx, gateVars, toolVars, chunkVars, stopVars, pipeVars>>

\* reload_models: initialize_models, then run_startup_latency_check hands a
\* sample prompt to a worker thread
RecvReloadModels(p) ==
    /\ p \in Conns
    /\ pc[p] = "recv"
    /\ req_seq < MaxRequests
    /\ req_seq' = req_seq + 1
    /\ llm_model' = TRUE
    /\ llm_running' = llm_running \cup {p}
    /\ Commit(p, session, None, None, "warmup", [NoLoc EXCEPT !.ctx = "warmup"], obs)
    /\ UNCHANGED <<now, conn_open, rec_seq, chunk_seq, llm_lock, llm_orphans,
                   sys_words, llm_ctx, gateVars, toolVars, chunkVars, stopVars, pipeVars>>

\* the warm-up inference returns; the reload_response is sent
WarmupComplete(p) ==
    /\ p \in Conns
    /\ pc[p] = "warmup"
    /\ llm_running' = llm_running \ {p}
    /\ Return(p, session, None,
              WireSend(obs, [Ev("reload_response", p, "llm", <<>>)
                             EXCEPT !.resp = ReloadStatus]))
    /\ UNCHANGED <<now, conn_open, rec_seq, chunk_seq, llm_lock, llm_orphans,
                   llm_model, sys_words, llm_ctx, req_seq, gateVars, toolVars, chunkVars, stopVars, pipeVars>>

InitLLM ==
    /\ ServerInit
    /\ llm_ctx = llm_context
    /\ sys_words = DefaultSysWords
    /\ GateInit
    /\ AdapterInit
    /\ ToolInit
    /\ ChunkInit

NextLLM ==
    \/ OrphanFinish
    \/ \E p \in Conns : RecvLlmRequest(p)
    \/ \E p \in Conns : RecvReloadModels(p)
    \/ \E p \in Conns : WarmupComplete(p)
    \/ \E p \in Conns : LLMAcquire(p)
    \/ \E p \in Conns : LLMComplete(p)
    \/ \E p \in Conns : LLMTimeout(p)

SpecLLM == InitLLM /\ [][NextLLM]_vars

(***************************************************************************)
(* Prompt assembly on its own: the prompt handed to process_llm for a      *)
(* final transcript and for an llm_request, over the configured context    *)
(* sizes and system prompts.                                               *)
(***************************************************************************)
\* the smallest context in which the default system prompt and a one-word
\* user text leave max_tokens and the reserve free
SmallContext == llm_max_tokens + PromptReserve + TemplateTokens + DefaultSysWords + 1
LlmContexts == {llm_context, SmallContext}

\* _handle_final_transcript from the turn bookkeeping to the call of
\* process_llm(prompt_text)
PreparePrompt ==
    /\ pc[Handler] = "recv"
    /\ Len(session.llm_user_turns) < MaxTurns
    /\ \E text \in Texts \ {T_empty} :
         LET prep == _prepare_llm_prompt(session.llm_user_turns, Strip(text))
         IN  /\ session' = [session EXCEPT !.llm_user_turns = prep.turns]
             /\ loc' = [loc EXCEPT ![Handler] =
                          [NoLoc EXCEPT !.mode = "llm", !.ctx = "final",
                                        !.text = Strip(text), !.prompt = prep.prompt,
                                        !.prompt_tokens = prep.prompt_tokens]]
    /\ UNCHANGED <<now, conn_open, rec_seq, chunk_seq, pc, cancelled, llm_lock,
                   llm_running, llm_orphans, llm_model, sys_words, llm_ctx, req_seq,
                   obs, gateVars, toolVars, chunkVars, stopVars, pipeVars>>

\* _handle_llm_request up to the call of process_llm(text)
RequestPrompt ==
    /\ pc[Handler] = "recv"
    /\ \E text \in Texts \ {T_empty} :
         loc' = [loc EXCEPT ![Handler] =
                   [NoLoc EXCEPT !.mode = "llm", !.ctx = "request",
                                 !.text = Strip(text), !.prompt = Strip(text)]]
    /\ UNCHANGED <<now, conn_open, session, rec_seq, chunk_seq, pc, cancelled,
                   llm_lock, llm_running, llm_orphans, llm_model, sys_words, llm_ctx,
                   req_seq, obs, gateVars, toolVars, chunkVars, stopVars, pipeVars>>

InitPrompt ==
    /\ ServerStart([SessionContext EXCEPT !.mode = "llm"])
    /\ llm_ctx \in LlmContexts
    /\ sys_words \in SysPromptWords
    /\ GateInit
    /\ AdapterInit
    /\ ToolInit
    /\ ChunkInit

NextPrompt ==
    \/ PreparePrompt
    \/ RequestPrompt

SpecPrompt == InitPrompt /\ [][NextPrompt]_vars

(***************************************************************************)
(* The turn history on its own: finals of a session in llm mode, from the  *)
(* duplicate check of _handle_final_transcript to the trimmed history,     *)
(* with system prompts that leave room for one to MaxRoom words.           *)
(***************************************************************************)
T_no_go == <<"n", "o", " ", "g", "o">>
TurnTexts == {T_no, T_go_on, T_Go_On, T_no_go}
TrimSysWords == {max_prompt_tokens - TemplateTokens - w : w \in 1..MaxRoom}

FinalTurn ==
    /\ pc[Handler] = "recv"
    /\ Len(session.llm_user_turns) < MaxTurns
    /\ \E text \in TurnTexts :
         LET clean_text == Strip(text)
             prep == _prepare_llm_prompt(session.llm_user_turns, clean_text)
             call == [NoLoc EXCEPT !.mode = "llm", !.text = clean_text]
         IN  IF LlmDuplicate(session, clean_text)
             THEN /\ loc' = [loc EXCEPT ![Handler] = [call EXCEPT !.ctx = "duplicate"]]
                  /\ UNCHANGED session
             ELSE /\ session' = [session EXCEPT !.llm_user_turns = prep.turns]
                  /\ loc' = [loc EXCEPT ![Handler] =
                               [call EXCEPT !.ctx = "final", !.prompt = prep.prompt,
                                            !.prompt_tokens = prep.prompt_tokens,
                                            !.truncated = prep.truncated]]
    /\ UNCHANGED <<now, conn_open, rec_seq, chunk_seq, pc, cancelled, llm_lock,
                   llm_running, llm_orphans, llm_model, sys_words, llm_ctx, req_seq,
                   obs, gateVars, toolVars, chunkVars, stopVars, pipeVars>>

InitTrim ==
    /\ ServerStart([SessionContext EXCEPT !.mode = "llm"])
    /\ llm_ctx \in LlmContexts
    /\ sys_words \in TrimSysWords
    /\ GateInit
    /\ AdapterInit
    /\ ToolInit
    /\ ChunkInit

NextTrim == FinalTurn

SpecTrim == InitTrim /\ [][NextTrim]_vars

(***************************************************************************)
(* One adapter of pipelines/local.py used by one caller at a time, and by  *)
(* two concurrent callers.                                                 *)
(***************************************************************************)
InitAdapter ==
    /\ ServerInit
    /\ llm_ctx = llm_context
    /\ sys_words = DefaultSysWords
    /\ GateInit
    /\ AdapterInit
    /\ ToolInit
    /\ ChunkInit

AdapterNext(cs) ==
    \/ \E c \in cs : OpenCall(c)
    \/ \E c \in cs \cap {"a"} : generate(c)
    \/ \E c \in cs : close_call(c)
    \/ \E c \in cs : ConnectDone(c)
    \/ \E c \in cs : ConnectFail(c)
    \/ \E c \in cs : HandshakeRecv(c)
    \/ \E c \in cs : HandshakeTimeout(c)
    \/ \E c \in cs : GenerateRecv(c)
    \/ \E c \in cs : GenerateTimeout(c)
    \/ \E c \in cs : GenerateClosed(c)
    \/ \E w \in Sockets : ServerReply(w)
    \/ \E w \in Sockets : ServerOther(w)
    \/ \E w \in Sockets : ChannelClose(w)

NextCall == AdapterNext({"a"})

SpecCall == InitAdapter /\ [][NextCall]_vars

NextAdapter == AdapterNext(Callers)

SpecAdapter == InitAdapter /\ [][NextAdapter]_vars

\* the same adapter when a caller also stops it
NextStop ==
    \/ \E c \in Callers : stop(c)
    \/ AdapterNext(Callers)

SpecStop == InitAdapter /\ [][NextStop]_vars

(***************************************************************************)
(* One caller of synthesize, and of transcribe, and the peer.              *)
(***************************************************************************)
OneShotNext(c) ==
    \/ ConnectDone(c)
    \/ ConnectFail(c)
    \/ HandshakeRecv(c)
    \/ HandshakeTimeout(c)
    \/ GenerateTimeout(c)
    \/ GenerateClosed(c)
    \/ \E w \in Sockets : ServerReply(w)
    \/ \E w \in Sockets : PeerMessage(w)
    \/ \E w \in Sockets : ChannelClose(w)

NextSynth ==
    \/ synthesize("a")
    \/ SynthRecv("a")
    \/ \E w \in Sockets : ServerTts(w)
    \/ OneShotNext("a")

SpecSynth == InitAdapter /\ [][NextSynth]_vars

NextTranscribe ==
    \/ transcribe("a")
    \/ TranscribeRecv("a")
    \/ \E w \in Sockets : ServerResult(w)
    \/ OneShotNext("a")

SpecTranscribe == InitAdapter /\ [][NextTranscribe]_vars

(***************************************************************************)
(* One STT stream of a LocalSTTAdapter: the caller that starts, feeds and  *)
(* stops it, the receive loop, the consumer and the server.                *)
(***************************************************************************)
NextStream ==
    \/ StartStream("a")
    \/ send_audio("a", Chunk, DefaultFmt, FALSE)
    \/ StopStream("a", "stop_stream")
    \/ StopStream("a", "close_call")
    \/ StopStreamEnd("a")
    \/ ConnectDone("a")
    \/ ConnectFail("a")
    \/ HandshakeRecv("a")
    \/ HandshakeTimeout("a")
    \/ IterBegin
    \/ IterResume
    \/ IterWake
    \/ \E w \in Sockets : ReceiverStart(w)
    \/ \E w \in Sockets : ReceiverRecv(w)
    \/ \E w \in Sockets : ReceiverPut(w)
    \/ \E w \in Sockets : ReceiverClosed(w)
    \/ \E w \in Sockets : ReceiverCancelled(w)
    \/ \E w \in Sockets : ServerReply(w)
    \/ \E w \in Sockets : ServerResult(w)
    \/ \E w \in Sockets : ChannelClose(w)

SpecStream == InitAdapter /\ [][NextStream]_vars

(***************************************************************************)
(* Two callers of send_audio on one stream that caller "a" starts and      *)
(* stops.                                                                  *)
(***************************************************************************)
NextSend ==
    \/ StartStream("a")
    \/ \E c \in Callers, audio \in Audios, fmt \in Formats, suspend \in BOOLEAN :
         send_audio(c, audio, fmt, suspend)
    \/ \E c \in Callers : SendDone(c)
    \/ \E c \in Callers, suspend \in BOOLEAN : LockAcquire(c, suspend)
    \/ StopStream("a", "stop_stream")
    \/ StopStreamEnd("a")
    \/ ConnectDone("a")
    \/ ConnectFail("a")
    \/ HandshakeRecv("a")
    \/ HandshakeTimeout("a")
    \/ \E w \in Sockets : ReceiverStart(w)
    \/ \E w \in Sockets : ReceiverClosed(w)
    \/ \E w \in Sockets : ReceiverCancelled(w)
    \/ \E w \in Sockets : ServerReply(w)
    \/ \E w \in Sockets : ChannelClose(w)

SpecSend == InitAdapter /\ [][NextSend]_vars

(***************************************************************************)
(* One sub-session used by a stream and by transcribe: caller "a" starts   *)
(* the stream, caller "b" calls transcribe on the same call.  No audio is  *)
(* fed to the stream, so every stt_result answers the audio of transcribe. *)
(***************************************************************************)
NextShared ==
    \/ StartStream("a")
    \/ transcribe("b")
    \/ TranscribeRecv("b")
    \/ \E c \in Callers : ConnectDone(c)
    \/ \E c \in Callers : ConnectFail(c)
    \/ \E c \in Callers : HandshakeRecv(c)
    \/ \E c \in Callers : HandshakeTimeout(c)
    \/ GenerateTimeout("b")
    \/ GenerateClosed("b")
    \/ \E w \in Sockets : ReceiverStart(w)
    \/ \E w \in Sockets : ReceiverRecv(w)
    \/ \E w \in Sockets : ReceiverClosed(w)
    \/ \E w \in Sockets : ServerReply(w)
    \/ \E w \in Sockets : ServerResult(w)
    \/ \E w \in Sockets : ChannelClose(w)

SpecShared == InitAdapter /\ [][NextShared]_vars

(***************************************************************************)
(* The gating token under any interleaving of starts and clears.           *)
(***************************************************************************)
InitGate ==
    /\ ServerInit
    /\ llm_ctx = llm_context
    /\ sys_words = DefaultSysWords
    /\ GateInit
    /\ AdapterInit
    /\ ToolInit
    /\ ChunkInit

NextGate ==
    \/ \E c \in CallIds, sid \in StreamIds : on_tts_start(c, sid)
    \/ \E c \in CallIds, sid \in StreamIds : on_tts_end(c, sid)
    \/ \E c \in CallIds, sid \in StreamIds : on_tts_cancel(c, sid)
    \/ \E c \in CallIds, attached \in BOOLEAN : end_segment_gating(c, attached)

SpecGate == InitGate /\ [][NextGate]_vars

(***************************************************************************)
(* One connection in stt mode: the idle finaliser against the audio        *)
(* handler, for longer runs of chunks.                                     *)
(***************************************************************************)
InitIdle ==
    /\ ServerStart([SessionContext EXCEPT !.mode = "stt"])
    /\ llm_ctx = llm_context
    /\ sys_words = DefaultSysWords
    /\ GateInit
    /\ AdapterInit
    /\ ToolInit
    /\ ChunkInit

NextIdle ==
    \/ RecvAudioUpTo(MaxIdleChunks)
    \/ PartialSentResume
    \/ ConnClose
    \/ HandlerExit
    \/ Tick
    \/ \E t \in TaskIds : IdleStart(t)
    \/ \E t \in TaskIds : IdleFire(t)
    \/ \E t \in TaskIds : IdleCancelled(t)
    \/ \E p \in {Handler} \cup TaskIds : EmptyFinalSentResume(p)
    \/ \E p \in {Handler} \cup TaskIds : FinalSentResume(p)

SpecIdle == InitIdle /\ [][NextIdle]_vars

(***************************************************************************)
(* The same connection when the peer also sends envelopes of unknown type. *)
(***************************************************************************)
NextEnvelope ==
    \/ RecvUnknown
    \/ NextIdle

SpecEnvelope == InitIdle /\ [][NextEnvelope]_vars

(***************************************************************************)
(* The specification of the live-agent transfer tool: one call of execute  *)
(* on every configuration of the model.                                    *)
(***************************************************************************)
InitTransfer ==
    /\ ServerInit
    /\ llm_ctx = llm_context
    /\ sys_words = DefaultSysWords
    /\ GateInit
    /\ AdapterInit
    /\ \E cfg \in ToolsConfigs : ToolStart(cfg)
    /\ ChunkInit

NextTransfer == execute

SpecTransfer == InitTransfer /\ [][NextTransfer]_vars

(***************************************************************************)
(* The specification of the transfer tools behind the tool adapter: one    *)
(* tool call on every configuration, the ARI accepting the command or not. *)
(***************************************************************************)
InitTools ==
    /\ ServerInit
    /\ llm_ctx = llm_context
    /\ sys_words = DefaultSysWords
    /\ GateInit
    /\ AdapterInit
    /\ \E cfg \in TransferConfigs : ToolStart(cfg)
    /\ ChunkInit

NextTools == TransferCall \/ LiveAgentCall

SpecTools == InitTools /\ [][NextTools]_vars

(***************************************************************************)
(* The specification of _chunk_audio: one generator over every audio       *)
(* length, encoding, sample rate and chunk size of the model.              *)
(***************************************************************************)
InitChunk ==
    /\ ServerInit
    /\ llm_ctx = llm_context
    /\ sys_words = DefaultSysWords
    /\ GateInit
    /\ AdapterInit
    /\ ToolInit
    /\ \E n \in AudioLengths, encoding \in Encodings, sample_rate \in SampleRates,
          chunk_ms \in ChunkSizes : ChunkStart(n, encoding, sample_rate, chunk_ms)

NextChunk == _chunk_audio

SpecChunk == InitChunk /\ [][NextChunk]_vars

(***************************************************************************)
(* Properties.                                                             *)
(***************************************************************************)
\* the step in which idle task t wakes up and draws the recogniser's final
IdlePromotion(t) ==
    /\ TimerDue(t)
    /\ session.recognizer # NoRecognizer
    /\ pc'[t] # "sleep"

RECURSIVE SumTo(_, _)
SumTo(f, n) == IF n = 0 THEN 0 ELSE f[n] + SumTo(f, n - 1)

\* final stt_result messages sent so far
FinalsSent(ob) == SumTo(ob.nfinal, MaxIdleChunks)

ReplyPcs == {"llm_wait", "llm_infer", "llm_resp_sent", "tts_meta_sent", "tts_bytes_sent"}

Replying == {p \in Procs : loc[p].ctx = "final" /\ pc[p] \in ReplyPcs}

\* C1: at every moment at most one invocation of the LLM model is executing,
\* process-wide: the calls awaited by a coroutine and the calls whose awaiter
\* was cancelled by the inference timeout, counted together.
C1_SingleModelInvocation == Cardinality(llm_running) + llm_orphans <= 1

\* C2: an idle-timeout final is produced only when no audio chunk was
\* accepted for the session during the preceding idle_ms: whenever an idle
\* task wakes up and promotes, the last accepted chunk is at least
\* buffer_timeout_ms old.
C2_IdleFinalOnlyAfterSilence ==
    [][\A t \in TaskIds :
         IdlePromotion(t) => now - session.last_audio_at >= buffer_timeout_ms]_vars

\* C3: for every recogniser instance at most one final stt_result is sent,
\* and between two finals sent on the connection _reset_stt_session has run.
C3_OneFinalPerUtterance ==
    /\ \A r \in 1..MaxIdleChunks : obs.nfinal[r] <= 1
    /\ obs.since_reset <= 1

\* C4: an utterance is never left with a live recogniser and no armed idle
\* timer: when the connection is open, the handler waits for the next message
\* and no idle task is running or being cancelled, a live recogniser has a
\* pending idle task that will finalise it.
C4_NoStrandedUtterance ==
    (/\ conn_open
     /\ pc[Handler] = "recv"
     /\ cancelled = {}
     /\ \A t \in TaskIds : pc[t] \in {"none", "created", "sleep"}
     /\ session.recognizer # NoRecognizer)
    => \E t \in TaskIds : pc[t] \in {"created", "sleep"}

\* C5: at most one reply is in flight per call: at no time are two
\* _handle_final_transcript invocations of the session both between the start
\* of their LLM step and the end of their reply.
C5_OneReplyInFlight == Cardinality(Replying) <= 1

\* C6: the gating token is a nonce-compare-and-clear: on_tts_start(c, sid)
\* sets the token of c to sid; a clear of c presenting sid is accepted and
\* removes the token exactly when the token equals sid, and otherwise returns
\* not-cleared and changes nothing; no operation changes another call's token.
C6_NonceCompareAndClear ==
    [][\A c \in CallIds :
         /\ (last_op'.n # last_op.n /\ last_op'.call = c /\ last_op'.op = "on_tts_start")
              => gating_token'[c] = last_op'.sid
         /\ (last_op'.n # last_op.n /\ last_op'.call = c /\ last_op'.op # "on_tts_start")
              => IF gating_token[c] = last_op'.sid
                 THEN last_op'.cleared /\ gating_token'[c] = None
                 ELSE ~last_op'.cleared /\ gating_token'[c] = gating_token[c]
         /\ gating_token'[c] # gating_token[c] => last_op'.call = c]_vars

\* C6 witness: a late clear for an old stream was refused while the token of a
\* newer on_tts_start is held.
C6_LateClearRefused ==
    /\ last_op.op \in {"on_tts_end", "on_tts_cancel"}
    /\ ~last_op.cleared
    /\ gating_token[last_op.call] \in StreamIds \ {last_op.sid}

PromotedText(t) == IF pc'[t] = "none" THEN obs'.last.text ELSE loc'[t].text

\* the suppression condition of C8 for text x against session s
IdleDuplicate(s, x) ==
    \/ _normalize_text(x) # <<>> /\ _normalize_text(x) = _normalize_text(s.last_final_text)
    \/ /\ x = <<>>
       /\ s.last_final_text = <<>>
       /\ s.last_final_at > 0
       /\ now - s.last_final_at < DupWindowMs

\* C8: an idle-promoted final whose normalised text equals that of the last
\* emitted final (the one the session recorded in last_final_text), or that is
\* empty while the last final was empty and less than 500 ms old, is
\* suppressed: no stt_result is sent, no LLM inference starts, and
\* last_final_text, last_final_norm and last_final_at are unchanged.
C8_IdleDuplicateSuppressed ==
    [][\A t \in TaskIds :
         (IdlePromotion(t) /\ IdleDuplicate(session, PromotedText(t)))
         => /\ pc'[t] = "none"
            /\ obs'.nfinal = obs.nfinal
            /\ obs'.infers = obs.infers
            /\ llm_running' = llm_running
            /\ session'.last_final_text = session.last_final_text
            /\ session'.last_final_norm = session.last_final_norm
            /\ session'.last_final_at = session.last_final_at]_vars

\* C8 witness: an idle-promoted final was suppressed whose text differs from
\* the last final's text in case and whitespace only.
C8_SuppressedByNormalisedText ==
    /\ obs.last.type = "final_suppressed"
    /\ obs.last.idle
    /\ obs.last.text # <<>>
    /\ obs.last.text # session.last_final_text
    /\ _normalize_text(obs.last.text) = session.last_final_norm

\* the finals with normalised text n handed to _handle_final_transcript
Arrivals(n) == {a \in obs.arrived : a.norm = n}

\* one recogniser final and one idle-promoted final, within 500 ms
TwinFinals(n) ==
    /\ Cardinality(Arrivals(n)) = 2
    /\ \E a, b \in Arrivals(n) :
         /\ ~a.idle /\ b.idle
         /\ a.at - b.at < DupWindowMs
         /\ b.at - a.at < DupWindowMs

\* C9: in llm or full mode two finals with the same normalised text arriving
\* within 500 ms of each other, one from the recogniser and one from idle
\* promotion, never cause more than the one LLM inference and the one
\* llm_response.
C9_TwinFinalsOneInference ==
    \A n \in Norms : TwinFinals(n) => obs.infers[n] <= 1 /\ obs.resps[n] <= 1

\* C10: on a newly opened stt-mode session that received only silent audio,
\* the idle finaliser, when it wakes up, sends one final stt_result with
\* text "".
C10_FreshSilenceOneEmptyFinal ==
    [][\A t \in TaskIds :
         (/\ IdlePromotion(t)
          /\ conn_open
          /\ loc[t].mode = "stt"
          /\ ~obs.speech
          /\ session.last_final_at = 0
          /\ FinalsSent(obs) = 0)
         => /\ pc'[t] = "empty_final_sent"
            /\ FinalsSent(obs') = 1]_vars

\* C11: a final transcript with empty text never starts an LLM inference and
\* never produces an llm_response or TTS audio (no coroutine is ever in the
\* reply path for an empty text), whatever the mode and the source; and a
\* silent utterance (a recogniser instance that never decoded speech) yields
\* at most one final on the wire.
C11_EmptyFinalNoReplyOneFinal ==
    /\ \A p \in Procs : pc[p] \in ReplyPcs => loc[p].text # <<>>
    /\ obs.silent.n <= 1

\* tokens of the prompt a coroutine hands to the model: the counted Phi
\* prompt of a final transcript, the bare text of an llm_request
PromptTokens(p) ==
    IF loc[p].ctx = "request" THEN Len(Split(loc[p].prompt)) ELSE loc[p].prompt_tokens

\* C12: every prompt passed to the LLM model has at most
\* llm_context - llm_max_tokens - 64 tokens, for the prompts built from final
\* transcripts and for the text of an llm_request.
C12_PromptWithinBudget ==
    \A p \in Procs :
        loc[p].prompt # <<>> => PromptTokens(p) <= llm_ctx - llm_max_tokens - PromptReserve

\* C13: whenever the inference times out, the model call raises or the model
\* returns no usable output, the llm_response sent to the client carries
\* exactly the fallback "I'm here to help you. Could you please repeat that?":
\* every llm_response on the wire is either the model's reply or that text.
C13_FallbackReplyText ==
    obs.last.type = "llm_response" => obs.last.resp \in {Reply, FallbackRepeat}

\* C14: generate (and synthesize) returns the reply the server produced for
\* its own request, also when an earlier generate on the call ended in a
\* timeout: a reply returned to a caller never answers another request.
C14_ReplyAnswersOwnRequest ==
    \A c \in Callers :
        aloc[c].op = "generate" /\ aloc[c].result = "ok" => aloc[c].reply = aloc[c].req

\* the step consumes a mode_ready from the websocket
ModeReadyReceived(w) ==
    /\ websockets[w].inbox # <<>>
    /\ Head(websockets[w].inbox).type = "mode_ready"
    /\ websockets'[w].inbox = Tail(websockets[w].inbox)

\* C15: an open_call that found no live session and connected returns
\* normally with its session registered, having sent exactly one message on
\* the new connection, the set_mode; handshake_complete is true exactly when a
\* mode_ready was received before the handshake gave up (a timeout or other
\* messages leave it false); and a later operation on a live registered
\* session sends on that connection, confirmed or not.
C15_OpenCallHandshake ==
    [][\A c \in Callers :
         /\ (apc[c] = "handshake" /\ apc'[c] = "idle" /\ aloc[c].op = "open_call")
              => /\ aloc'[c].result = "ok"
                 /\ _sessions' = aloc[c].ws
                 /\ websockets'[aloc[c].ws].sent = <<"set_mode">>
                 /\ handshake_complete'[aloc[c].ws] = ModeReadyReceived(aloc[c].ws)
         /\ (apc[c] = "idle" /\ call_seq' # call_seq /\ aloc'[c].op = "generate"
             /\ Live(_sessions, websockets))
              => /\ apc'[c] = "await_reply"
                 /\ aloc'[c].ws = _sessions
                 /\ _sessions' = _sessions
                 /\ \A w \in Sockets : websockets'[w].state = websockets[w].state
      ]_vars

\* an open_call has returned normally after a handshake that was not
\* confirmed, and its session is registered on the open connection
C15_ReturnedUnconfirmed ==
    \E c \in Callers :
        /\ apc[c] = "idle"
        /\ aloc[c].op = "open_call"
        /\ aloc[c].result = "ok"
        /\ _sessions = aloc[c].ws
        /\ Live(_sessions, websockets)
        /\ ~handshake_complete[_sessions]
        /\ websockets[_sessions].sent = <<"set_mode">>

\* C18: at most one sub-session per call_id: under any interleaving of
\* open_call, _ensure_session and close_call every open websocket of the call
\* is the one registered in _sessions; no connection is created and then left
\* unregistered and unclosed.
C18_OpenSocketIsRegistered ==
    \A w \in Sockets : websockets[w].state = "open" => _sessions = w

\* the receive loop of the session is running and has not been cancelled
Active(w) == stream[w].receiver_task \in {"recv", "put"} /\ ~stream[w].cancel

\* the transcripts iter_results has yielded from the session
YieldedOf(w) == IF consumer.session = w THEN consumer.yielded ELSE <<>>

\* the transcript a blocked 'await queue.put(text)' holds
Pending(w) == IF stream[w].receiver_task = "put" THEN <<stream[w].text>> ELSE <<>>

Items(q) == {q[i] : i \in DOMAIN q}

\* C16: when the channel of a call has closed, the result queue of its stream
\* receives a terminating event: once the receive loop has ended on the closed
\* connection, the sentinel is on the queue or has reached the consumer.
C16_ClosedChannelEndsQueue ==
    \A w \in Sockets :
        (/\ websockets[w].state = "closed"
         /\ stream[w].result_queue
         /\ stream[w].receiver_task = "done"
         /\ ~stream[w].cancel)
        => \/ Sentinel \in Items(queue[w])
           \/ consumer.session = w /\ consumer.pc = "done"

\* C17: after a channel flap during an active STT stream the stream resumes:
\* a send_audio on a call whose stream was started is delivered to the server,
\* it does not fail on the closed connection.
C17_SendAudioAfterFlapDelivered ==
    \A c \in Callers :
        aloc[c].op = "send_audio" /\ aloc[c].ws # None => aloc[c].result = "ok"

\* C19: after stop_stream or close_call the consumer of iter_results ends by
\* receiving the sentinel: it never raises, and once the stream is stopped a
\* consumer that has not ended finds the sentinel on the queue.
C19_ConsumerEndsBySentinel ==
    /\ consumer.pc # "raised"
    /\ (/\ consumer.pc \in {"busy", "blocked"}
        /\ ~stream[consumer.session].result_queue)
       => Sentinel \in Items(queue[consumer.session])

StopOps == {"stop_stream", "close_call"}

\* the step is the call of a stop_stream or close_call by caller c
StopCalled(c) == call_seq' = call_seq + 1 /\ aloc'[c].op \in StopOps

AdapterStateUnchanged ==
    UNCHANGED <<websockets, _sessions, handshake_complete, request_seq, streamVars>>

\* C21: a second close_call, and a second stop_stream, right after the first
\* has returned, and a close_call while no session is registered, return
\* at once without raising and leave the sessions, the websockets, the stream
\* fields and the result queues as they were.
C21_SecondCloseNoOp ==
    [][\A c \in Callers :
         StopCalled(c) /\ (aloc'[c].repeat \/ _sessions = None)
           => /\ AdapterStateUnchanged
              /\ apc'[c] = "idle"
              /\ aloc'[c].result = "ok"]_vars

\* a second stop_stream has returned on a session whose queue still holds
\* the sentinel of the first
C21_StoppedTwice ==
    /\ apc["a"] = "idle"
    /\ aloc["a"].op = "stop_stream"
    /\ aloc["a"].repeat
    /\ _sessions # None
    /\ Sentinel \in Items(queue[_sessions])

\* C22: once a tts_audio metadata envelope is on the wire and its emitter has
\* not gone on, there is audio to send as the binary frame it announces, and
\* nothing else has been sent on the connection since the envelope.
C22_TtsFrameFollowsEnvelope ==
    \A p \in Procs :
        pc[p] = "tts_meta_sent" /\ loc[p].sent /\ conn_open
          => loc[p].audio /\ obs.last.type = "tts_audio"

\* a message that carries audio in one of the two framings, and the audio
AudioBearing(m) == m.type = "binary" \/ (m.type = "tts_response" /\ m.text # "")

AudioOf(m) == IF m.type = "binary" THEN m.text ELSE b64decode(m.text)

\* C23: synthesize of an empty text returns at once, yields nothing and
\* leaves the sessions and the websockets alone; synthesize of a text sends
\* one tts_request when it starts to wait and nothing after it; each message
\* it receives is either the first that carries audio, a binary frame or a
\* tts_response with audio_data, whose audio (decoded for a tts_response) is
\* the one payload yielded before the operation ends, or a message that is
\* skipped with nothing yielded.
C23_SynthesizeOneAudio ==
    [][\A c \in Callers :
         LET w == aloc'[c].ws
             m == Head(websockets[aloc[c].ws].inbox)
         IN  aloc'[c].op = "synthesize" =>
               /\ Len(aloc'[c].yielded) <= 1
               /\ (call_seq' = call_seq + 1 /\ aloc'[c].text = "")
                    => /\ UNCHANGED <<websockets, _sessions, handshake_complete,
                                      request_seq>>
                       /\ apc'[c] = "idle"
                       /\ aloc'[c].result = "ok"
                       /\ aloc'[c].yielded = <<>>
               /\ (apc[c] # "await_reply" /\ apc'[c] = "await_reply")
                    => websockets'[w].sent = Append(websockets[w].sent, "tts_request")
               /\ (apc[c] = "await_reply")
                    => websockets'[w].sent = websockets[w].sent
               /\ (apc[c] = "await_reply" /\ aloc'[c].seen # aloc[c].seen)
                    => IF AudioBearing(m)
                       THEN /\ aloc'[c].yielded = <<AudioOf(m)>>
                            /\ aloc'[c].result = "ok"
                            /\ apc'[c] = "idle"
                       ELSE /\ aloc'[c].yielded = <<>>
                            /\ apc'[c] = "await_reply"]_vars

\* synthesize has skipped a tts_audio envelope and yielded the decoded
\* audio_data of the tts_response after it
C23_EnvelopeThenResponse ==
    /\ aloc["a"].op = "synthesize"
    /\ aloc["a"].result = "ok"
    /\ Len(aloc["a"].seen) = 2
    /\ aloc["a"].seen[1].type = "tts_audio"
    /\ aloc["a"].seen[2].type = "tts_response"
    /\ aloc["a"].yielded = <<"AB">>

\* C24: a synthesize that has ended without a closed connection has ended
\* normally, so the response timeout is not raised to the caller.
C24_SynthesizeTimeoutReturnsEmpty ==
    \A c \in Callers :
        aloc[c].op = "synthesize" /\ apc[c] = "idle" /\ aloc[c].result # "raised"
          => aloc[c].result = "ok"

\* the best partial text of the messages a transcribe has received
RECURSIVE BestPartial(_)
BestPartial(ms) ==
    IF ms = <<>> THEN ""
    ELSE LET m == ms[Len(ms)]
         IN  IF m.type = "stt_result" /\ m.is_partial /\ strip(m.text) # ""
             THEN strip(m.text)
             ELSE BestPartial(SubSeq(ms, 1, Len(ms) - 1))

FinalSeen(ms) == \E i \in DOMAIN ms : ms[i].type = "stt_result" /\ ~ms[i].is_partial

\* C25: a transcribe that has sent its audio and has ended without a closed
\* connection has returned a transcript and has not raised; when it has
\* received no final stt_result the transcript is the last non-empty partial
\* text it received, or the empty string.
C25_TranscribeTimeoutReturnsPartial ==
    \A c \in Callers :
        aloc[c].op = "transcribe" /\ apc[c] = "idle" /\ aloc[c].req # 0
          /\ aloc[c].result # "raised"
          => /\ aloc[c].result = "ok"
             /\ ~FinalSeen(aloc[c].seen) => aloc[c].yielded = <<BestPartial(aloc[c].seen)>>

\* the step writes exactly one audio envelope, of call n, with mode stt and
\* rate 16000, on websocket w
OneEnvelope(w, n) ==
    LET ch == websockets'[w].chunks
    IN  /\ websockets'[w].sent = Append(websockets[w].sent, "audio")
        /\ Len(ch) = Len(websockets[w].chunks) + 1
        /\ SubSeq(ch, 1, Len(ch) - 1) = websockets[w].chunks
        /\ ch[Len(ch)].mode = "stt"
        /\ ch[Len(ch)].rate = 16000
        /\ ch[Len(ch)].data = n

InCallOrder(ch) == \A i, j \in DOMAIN ch : i < j => ch[i].data < ch[j].data

\* C26: a send_audio call with empty audio returns and changes nothing; with
\* audio, before start_stream or after stop_stream, or with a format that is
\* not supported, it raises and changes nothing; on a started stream with a
\* supported format it writes exactly one audio envelope with mode stt and
\* rate 16000, at once when the send lock is free and else when the lock is
\* handed to it, and returns without raising; the envelopes of a websocket
\* are in the order of the calls.
C26_SendAudioContract ==
    [][\A c \in Callers :
         LET w == _sessions
             al == aloc'[c]
         IN  /\ (call_seq' = call_seq + 1 /\ al.op = "send_audio" /\ al.req = call_seq') =>
                   IF al.text = ""
                   THEN AdapterStateUnchanged /\ apc'[c] = "idle" /\ al.result = "ok"
                   ELSE IF w = None \/ ~stream[w].send_lock
                           \/ lower(al.fmt) \notin Convertible
                   THEN AdapterStateUnchanged /\ apc'[c] = "idle"
                        /\ al.result = "raised"
                   ELSE IF stream[w].lock_holder = "" /\ stream[w].lock_waiters = <<>>
                   THEN /\ OneEnvelope(w, al.req)
                        /\ apc'[c] \in {"idle", "sending"}
                        /\ apc'[c] = "idle" => al.result = "ok"
                   ELSE apc'[c] = "lock_wait" /\ websockets' = websockets
             /\ (apc[c] = "lock_wait" /\ apc'[c] # "lock_wait")
                  => /\ OneEnvelope(aloc[c].ws, aloc[c].req)
                     /\ apc'[c] = "idle" => al.result = "ok"
             /\ (apc[c] = "sending" /\ apc'[c] # "sending")
                  => al.result = "ok" /\ websockets' = websockets
             /\ \A v \in Sockets : InCallOrder(websockets'[v].chunks)]_vars

\* C27: an idle-promoted final with a text is suppressed as a duplicate only
\* when a final with the same normalised text was emitted less than 500 ms
\* before; one that repeats the last final later than that is sent.
C27_DuplicateOnlyWithinWindow ==
    [][\A t \in TaskIds :
         (IdlePromotion(t) /\ PromotedText(t) # <<>>
            /\ obs'.last.type = "final_suppressed")
         => /\ _normalize_text(PromotedText(t)) = session.last_final_norm
            /\ session.last_final_at > 0
            /\ now - session.last_final_at < DupWindowMs]_vars

\* C28: the step that takes an envelope of unknown type sends nothing,
\* changes no field of the session, no coroutine and no timer, and leaves the
\* handler waiting for the next message of the open connection.
C28_UnknownTypeSkipped ==
    [][obs'.unknown # obs.unknown
         => /\ session' = session
            /\ pc' = pc /\ pc'[Handler] = "recv"
            /\ loc' = loc
            /\ cancelled' = cancelled
            /\ conn_open' /\ conn_open
            /\ [obs' EXCEPT !.unknown = 0, !.last = obs.last] = [obs EXCEPT !.unknown = 0]]_vars

\* an envelope of unknown type was skipped and the connection went on: the
\* last message sent is the final of an utterance promoted after the skip
C28_FinalAfterUnknown ==
    /\ obs.unknown = 1
    /\ obs.last.type = "stt_final"
    /\ obs.last.idle
    /\ obs.last.text # <<>>

\* C29: the response to a reload request has status "ok" or "error", and the
\* admin client's test of it succeeds exactly when the server holds the
\* reloaded LLM.
C29_ReloadStatusOk ==
    obs.last.type = "reload_response"
      => /\ obs.last.resp \in {"ok", "error"}
         /\ hot_reload_succeeded(obs.last.resp) <=> llm_model

(***************************************************************************)
(* C30: LiveAgentTransferTool.execute succeeds, transferring to the        *)
(* live-agent target, whenever a documented configuration is present: the  *)
(* configured key naming a destination marked live_agent or keyed          *)
(* 'live_agent', exactly one destination marked live_agent, a destination  *)
(* keyed 'live_agent', or exactly one transferable internal extension      *)
(* identified as Live Agent.  A configured key that points at a            *)
(* destination not marked live_agent is never the reason of a transfer and *)
(* does not keep the other configurations from being used.  The transfer   *)
(* service is taken to be enabled.                                         *)
(***************************************************************************)
MarkedDestinations ==
    {k \in DOMAIN tools_config.destinations : tools_config.destinations[k].live_agent}

IdentifiedExtensions ==
    {e \in DOMAIN tools_config.internal :
        /\ tools_config.internal[e].transfer
        /\ \/ tools_config.internal[e].live_agent
           \/ _contains_live_agent(tools_config.internal[e])
           \/ normalize_label(Chars(tools_config.internal[e].alias)) = Chars("live agent")}

ConfiguredKeyValid ==
    LET k == tools_config.live_agent_destination_key
    IN  /\ k \in DOMAIN tools_config.destinations
        /\ tools_config.destinations[k].live_agent \/ k = "live_agent"

ConfiguredKeyMisplaced ==
    LET k == tools_config.live_agent_destination_key
    IN  /\ k \in DOMAIN tools_config.destinations
        /\ ~tools_config.destinations[k].live_agent
        /\ k # "live_agent"

\* the targets the documented configurations that are present name
LiveAgentTargets ==
    {tools_config.destinations[k].target :
        k \in {d \in DOMAIN tools_config.destinations :
                 \/ d = tools_config.live_agent_destination_key /\ ConfiguredKeyValid
                 \/ MarkedDestinations = {d}
                 \/ d = "live_agent"}}
      \cup {e \in IdentifiedExtensions : Cardinality(IdentifiedExtensions) = 1}

C30_LiveAgentTransferSucceeds ==
    (tool_pc = "done" /\ tools_config.enabled)
      => /\ LiveAgentTargets # {}
            => /\ tool_result.status = "success"
               /\ tool_result.destination \in LiveAgentTargets
         /\ (ConfiguredKeyMisplaced /\ tool_result.status = "success")
            => tool_result.destination \in IdentifiedExtensions

(***************************************************************************)
(* C31: a transfer tool touches the call only for a validated target: the  *)
(* ARI continue command is issued and transfer_active set only when the    *)
(* destination resolves to a key of tools.transfer.destinations (or to the *)
(* resolved live-agent internal extension); when the service is disabled,  *)
(* no destination is configured or nothing resolves, the result has status *)
(* failed, no ARI command is sent and the session is not updated.          *)
(***************************************************************************)
Touched == ari_commands # <<>> \/ call_session # NoCallSession

LiveAgentExtension ==
    _resolve_live_agent_extension_from_internal_config(tools_config.internal).key

NothingResolves ==
    IF tool_call.name = "transfer"
    THEN /\ tool_call.destination \notin DOMAIN tools_config.destinations
         /\ _resolve_destination_key(tool_call.destination,
                                     tools_config.destinations) = {}
    ELSE /\ _resolve_live_agent_destination_key(tools_config).key = ""
         /\ LiveAgentExtension = ""

TransferStates == {"transferring", "in_queue", "in_ringgroup"}

C32_FailedRedirectLeavesNoMark ==
    (tool_pc = "done" /\ tool_result.status # "success")
      => ~(call_session.transfer_active /\ call_session.transfer_state \in TransferStates)

(***************************************************************************)
(* C33: after _prepare_llm_prompt, session.llm_user_turns is the longest   *)
(* suffix of the previous turns followed by the new turn whose prompt fits *)
(* the token budget; turns are removed only from the front, and truncated  *)
(* is true exactly when at least one turn was removed.  A final skipped as *)
(* a duplicate of the last user turn leaves llm_user_turns unchanged.      *)
(***************************************************************************)
Suffixes(turns) == {SubSeq(turns, i, Len(turns)) : i \in 1..(Len(turns) + 1)}

FitsBudget(turns) ==
    _count_prompt_tokens(_build_phi_prompt(JoinTurns(turns))) <= max_prompt_tokens

LongestFittingSuffix(turns) ==
    CHOOSE s \in Suffixes(turns) :
        /\ FitsBudget(s)
        /\ \A u \in Suffixes(turns) : FitsBudget(u) => Len(u) <= Len(s)

FinalTurnStep == <<session, loc>>' # <<session, loc>>

C33_TrimToLongestSuffix ==
    [][FinalTurnStep =>
         LET candidate_turns == Append(session.llm_user_turns, loc'[Handler].text)
         IN  /\ loc'[Handler].ctx = "final"
                => /\ session'.llm_user_turns = LongestFittingSuffix(candidate_turns)
                   /\ session'.llm_user_turns \in Suffixes(candidate_turns)
                   /\ loc'[Handler].truncated
                        <=> Len(session'.llm_user_turns) < Len(candidate_turns)
             /\ loc'[Handler].ctx = "duplicate"
                => session'.llm_user_turns = session.llm_user_turns]_vars

\* a call that dropped a turn and kept two
C33_TurnDropped ==
    /\ loc[Handler].ctx = "final"
    /\ loc[Handler].truncated
    /\ Len(session.llm_user_turns) = 2

(***************************************************************************)
(* C34: immediately after a final has been sent the session has no         *)
(* recogniser, an empty partial cache, an empty audio buffer and no idle   *)
(* task that can still fire for the finished utterance, while              *)
(* last_final_text, last_final_norm and last_final_at hold the final just  *)
(* sent; the reset changes neither mode nor call_id nor llm_user_turns.    *)
(***************************************************************************)
\* idle task t is pending: created or sleeping, with no cancellation on its way
CanFire(t) == pc[t] \in {"created", "sleep"} /\ t \notin cancelled

\* coroutine p returns from the send of its final and runs the reset
ResetStep(p) ==
    /\ pc[p] = "final_sent"
    /\ loc[p].sent
    /\ p \notin cancelled
    /\ pc'[p] # "final_sent"

C34_ResetAfterFinal ==
    [][\A p \in Procs :
         ResetStep(p)
           => /\ session'.recognizer = NoRecognizer
              /\ session'.last_partial = <<>>
              /\ ~session'.partial_emitted
              /\ session'.audio_buffer = <<>>
              /\ session'.last_final_text = loc[p].text
              /\ session'.last_final_norm = _normalize_text(loc[p].text)
              /\ session'.last_final_at = now
              /\ session'.mode = session.mode
              /\ _reset_stt_session(session, loc[p].text).llm_user_turns
                    = session.llm_user_turns
              /\ \A t \in TaskIds : ~CanFire(t)']_vars

(***************************************************************************)
(* C35: per sub-session every outbound envelope is sent while holding the  *)
(* send lock, and at most one task at a time reads from the connection:    *)
(* the streaming receive loop, transcribe and the handshake wait never     *)
(* receive on the same websocket, so no stt_result is consumed by a reader *)
(* other than the one it is meant for.  Checked where the stream is fed no *)
(* audio: an envelope written once the send lock exists is written by its  *)
(* holder, and the receive loop takes no final.                            *)
(***************************************************************************)
SentUnlocked(w) ==
    /\ stream[w].send_lock
    /\ Len(websockets'[w].sent) > Len(websockets[w].sent)
    /\ stream[w].lock_holder = ""
    /\ stream'[w].lock_holder = ""

C35_LockedSendsSingleReader ==
    [][\A w \in Sockets :
         /\ ~SentUnlocked(w)
         /\ received'[w] = <<>>]_vars

(***************************************************************************)
(* C36: _chunk_audio yields consecutive, non-overlapping, non-empty frames *)
(* whose concatenation equals the input, and every frame except possibly   *)
(* the last has exactly ceil(rate * chunk_ms / 1000) * bytes_per_sample    *)
(* bytes, so that no frame boundary falls inside a sample.                 *)
(***************************************************************************)
RECURSIVE Concat(_)
Concat(frames) == IF frames = <<>> THEN <<>> ELSE Head(frames) \o Concat(Tail(frames))

CeilDiv(a, b) == (a + b - 1) \div b

ClaimedFrameBytes ==
    CeilDiv(chunker.sample_rate * chunker.chunk_ms, 1000) * _bytes_per_sample(chunker.encoding)

FramesTile ==
    /\ \A k \in 1..Len(chunker.yielded) : chunker.yielded[k] # <<>>
    /\ Len(Concat(chunker.yielded)) <= Len(chunker.audio_bytes)
    /\ Concat(chunker.yielded) = SubSeq(chunker.audio_bytes, 1, Len(Concat(chunker.yielded)))
    /\ chunker.idx >= Len(chunker.audio_bytes) => Concat(chunker.yielded) = chunker.audio_bytes

\* the frames that are not the last frame of the audio
InnerFrames ==
    {k \in 1..Len(chunker.yielded) :
        Len(Concat(SubSeq(chunker.yielded, 1, k))) < Len(chunker.audio_bytes)}

C36_FramesOfWholeSamples ==
    /\ FramesTile
    /\ \A k \in InnerFrames :
          /\ Len(chunker.yielded[k]) = ClaimedFrameBytes
          /\ Len(chunker.yielded[k]) % _bytes_per_sample(chunker.encoding) = 0

(***************************************************************************)
(* C37: at every moment at most one idle-finaliser task of the session is  *)
(* pending, and it is the task session.idle_task refers to; the cleanup of *)
(* a cancelled or finished idle task never clears the reference to a newer *)
(* task.  Pending is taken narrowly: created or sleeping, not cancelled.   *)
(***************************************************************************)
PendingIdle == {t \in TaskIds : CanFire(t)}

C37_OnePendingIdleTask ==
    /\ \A t, u \in PendingIdle : t = u
    /\ \A t \in PendingIdle : session.idle_task = t

(***************************************************************************)
(* C38: in llm or full mode every non-empty final transcript the server    *)
(* sends as an stt_result is answered by exactly one llm_response while    *)
(* the connection stays open, also a final that repeats the previous user  *)
(* turn.  Finite-run form: the coroutine that sent such a final and is not *)
(* cancelled goes on to the inference whose reply it emits; it does not    *)
(* leave the handling of the final without one.                            *)
(***************************************************************************)
SentFinalHandled(p) ==
    /\ pc[p] = "final_sent"
    /\ loc[p].sent
    /\ loc[p].mode \in {"llm", "full"}
    /\ p \notin cancelled
    /\ conn_open
    /\ pc'[p] # "final_sent"

C38_SentFinalAnswered ==
    [][\A p \in Procs : SentFinalHandled(p) => pc'[p] = "llm_wait"]_vars

(***************************************************************************)
(* C39: the prompt built by _prepare_llm_prompt always contains the new    *)
(* user turn: after the call session.llm_user_turns is non-empty and ends  *)
(* with the new turn and the user segment of the prompt ends with its      *)
(* text, also when the new turn alone exceeds the token budget.            *)
(***************************************************************************)
EndsWithText(text, tail) ==
    /\ Len(tail) <= Len(text)
    /\ SubSeq(text, Len(text) - Len(tail) + 1, Len(text)) = tail

C39_NewTurnKept ==
    loc[Handler].ctx = "final"
      => /\ session.llm_user_turns # <<>>
         /\ session.llm_user_turns[Len(session.llm_user_turns)] = loc[Handler].text
         /\ EndsWithText(loc[Handler].prompt, loc[Handler].text)

(***************************************************************************)
(* C40: after an adapter's stop() has returned the adapter holds no        *)
(* session and no open connection, and none appears later: open_call       *)
(* started after stop() raises, and an open_call or _ensure_session that   *)
(* was in progress when stop() ran registers no session afterwards.        *)
(***************************************************************************)
C40_StoppedHoldsNothing ==
    _closed => /\ _sessions = None
               /\ \A w \in Sockets : websockets[w].state # "open"

====
